---- MODULE Spec2Model ----
(***************************************************************************)
(* Blame-chain walkers of Improved-V-SZZ:                                  *)
(*   variant "vszz"     LLMEnhancedVSZZ   (llm_vszz.py)                    *)
(*   variant "myszz"    MySZZ             (szz/my_szz.py)                  *)
(*   variant "myszzllm" MySZZWithLLM      (szz/my_szz_llm.py)              *)
(* The repository is a linear history of commits 1..NumCommits, commit 1   *)
(* the root (no parent), the parent of c being c - 1.  Git, the analysis   *)
(* tools and the language models are the environment: their answers are    *)
(* drawn from small sets; git blame is deterministic (blameTab), except    *)
(* for transient I/O faults.  0 stands for None (no commit, no line).      *)
(***************************************************************************)
EXTENDS Integers, Sequences, FiniteSets, TLC

\* ---------------------------------------------------------------- bounds
NumCommits == 4
NumLines == 2
MaxDepth == 3
MaxIterations == 2
NumFiles == 2

\* ------------------------------------------------------ program constants
\* _analyze_commit_with_llm recurses while context_level < 3
MAX_CONTEXT_LEVEL == 3
\* MySZZWithLLM.find_bic: max_depth = 50
LLM_MAX_DEPTH == 50

Commits == 1..NumCommits
Lines == 1..NumLines
Revs == 1..(NumCommits - 1)
Files == 1..NumFiles

VARIABLES
    variant,             \* which find_bic runs
    large_llm,           \* a large-model client is configured
    small_llm,           \* a small-model client is configured
    enable_llm,          \* MySZZWithLLM.enable_llm
    max_tracking_depth,  \* LLMEnhancedVSZZ.max_tracking_depth
    max_iterations,      \* max_iterations of both LLM variants
    fix_commit,          \* fix_commit_hash
    impacted_files,      \* the seeds: per file [java, lines]
    fi, li,              \* position of find_bic's two for loops
    entries,             \* MySZZ: blame_data of the current file
    results,             \* the list find_bic returns
    pc,                  \* control position
    iteration,           \* _track_line_with_feedback: iteration
    feedback,            \* rejected_bic of the feedback (0: no feedback)
    chain,               \* tracking_chain / previous_commits
    current_commit,      \* _track_line: current_commit
    current_line,        \* _track_line: current_line
    depth,               \* loop counter of the walk
    blame_entry,         \* the blamed entry under analysis / blame_result
    context_level,       \* _analyze_commit_with_llm: context_level
    ret,                 \* value returned for the current seed
    blameTab,            \* the repository as git blame sees it
    walkEnd,             \* why the last walk left its loop
    fault,               \* exception that escaped (or was swallowed by) find_bic
    seeds, walked, failed, \* seeds known / whose walk began / whose walk raised
    llm_verdict,         \* MySZZWithLLM.find_bic: llm_verdict of the current step
    rejected,            \* the candidates the verifier rejected in this call
    cache,               \* temp/{project}.json: (commit, file) -> mapping_results
    tmpFile,             \* temp/tmp.json, the output file of every tool run
    wpc,                 \* per walker: position inside analyze / map_modified_line_java
    wkey,                \* per walker: the (commit, file) it analyses
    wmap,                \* per walker: mapping_results
    wlocal,              \* per walker: the dictionary loaded from the cache file
    wres,                \* what the last call returned
    stored,              \* per key: the value first written to the cache file
    overlap,             \* two calls have been in progress at once
    readFault,           \* a read of the cache file has failed
    tool_in,             \* CodeAnalyzerFactory.analyze: the file, the tools, what they answer
    tool_out,            \* CodeAnalyzerFactory.analyze: the CombinedToolResult returned
    text_in,             \* SrcMLAnalyzer.analyze: the file at the parent, at the commit, line_num
    text_out,            \* SrcMLAnalyzer.analyze: the ToolAnalysisResult returned
    ast_in,              \* mapping_results, file_path, line_num given to the two parsers
    ast_out,             \* what _parse_ast_result / map_modified_line_java returned
    hist_in,             \* run.py: the fix, the file's git log, --max-depth
    hist_out,            \* find_vulnerability_introduction: file_history, the error
    ld,                  \* _llm_driven_analysis: idx, tracked_commits, introduction_commit
    map_in,              \* map_modified_line: the blamed entry, the commit's modified files
    map_out              \* what map_modified_line returned

vars == <<variant, large_llm, small_llm, enable_llm, max_tracking_depth,
          max_iterations, fix_commit, impacted_files, fi, li, entries, results,
          pc, iteration, feedback, chain, current_commit, current_line, depth,
          blame_entry, context_level, ret, blameTab, walkEnd, fault,
          seeds, walked, failed, llm_verdict, rejected,
          cache, tmpFile, wpc, wkey, wmap, wlocal, wres, stored, overlap,
          readFault, tool_in, tool_out, text_in, text_out, ast_in, ast_out,
          hist_in, hist_out, ld, map_in, map_out>>

\* ------------------------------------------------------------------ git
\* rev = '<commit>^': the first parent
ParentRev(c) == c - 1

Unset == [k |-> "unset", commit |-> 0, line |-> 0]
BlameFail == [k |-> "fail", commit |-> 0, line |-> 0]
BlameEmpty == [k |-> "empty", commit |-> 0, line |-> 0]
Transient == [k |-> "transient", commit |-> 0, line |-> 0]
Entry(c, l) == [k |-> "entry", commit |-> c, line |-> l]
NoEntry == [k |-> "none", commit |-> 0, line |-> 0]

\* What blame can answer at revision rev: the commit that last touched the
\* line is rev or one of its ancestors; the call fails when the file or the
\* line is absent at rev; with skip_comments a comment line yields nothing.
BlameValues(rev, skip_comments) ==
    {BlameFail} \cup {Entry(c, l) : c \in 1..rev, l \in Lines}
      \cup (IF skip_comments THEN {BlameEmpty} ELSE {})

\* What the repository answers to blame of one line of file at rev, as a set of
\* <<answer, table'>>: the same question always gets the same answer.
BlameAnswer(tab, file, rev, line, skip_comments) ==
    IF rev \notin Revs THEN {<<BlameFail, tab>>}
    ELSE IF tab[file][rev][line].k = "unset"
         THEN {<<v, [tab EXCEPT ![file][rev][line] = v]>> :
                   v \in BlameValues(rev, skip_comments)}
         ELSE {<<tab[file][rev][line], tab>>}

\* One call of _blame(rev, file, [line]): the repository's answer, or a
\* transient I/O fault
Blame(file, rev, line, skip_comments) ==
    {<<Transient, blameTab>>}
      \cup BlameAnswer(blameTab, file, rev, line, skip_comments)

\* _blame(rev, file, modified_lines) of several lines: per line the answer
\* and the modified line it answers (src)
WithSrc(e, l) == [k |-> e.k, commit |-> e.commit, line |-> e.line, src |-> l]

RECURSIVE BlameLines(_, _, _, _, _)
BlameLines(tab, file, rev, ls, skip_comments) ==
    IF ls = <<>> THEN {<<(<<>>), tab>>}
    ELSE UNION {
           {<<(<<WithSrc(a[1], Head(ls))>>) \o rest[1], rest[2]>> :
               rest \in BlameLines(a[2], file, rev, Tail(ls), skip_comments)} :
           a \in BlameAnswer(tab, file, rev, Head(ls), skip_comments)}

\* git log --follow --oneline <commit>^ -- file, first line: the latest
\* commit among the ancestors of commit that touches the file (0: none)
GitLog(commit) == {0} \cup (1..(commit - 1))

\* ------------------------------------------------------- code_analyzer.py
NoTool == [present |-> FALSE, success |-> FALSE, change_type |-> "Unknown", source_line |-> 0]
FailTool == [present |-> TRUE, success |-> FALSE, change_type |-> "Unknown", source_line |-> 0]
Tool(t, s) == [present |-> TRUE, success |-> TRUE, change_type |-> t, source_line |-> s]

\* ASTAnalyzer.analyze on line_num: unavailable (None), failed, no matching
\* statement / Insert (source_line None), or the matched statement's type
\* with source_line = srcStmtStartLine = line_num
ASTResults(line_num) ==
    {NoTool, FailTool, Tool("Insert", 0)}
      \cup {Tool(t, line_num) : t \in {"Update", "Unchanged", "Unknown"}}

\* SrcMLAnalyzer.analyze of commit on line_num: a commit without parents
\* is an Insert
SrcmlResults(commit, line_num) ==
    IF ParentRev(commit) = 0 THEN {NoTool, FailTool, Tool("Insert", 0)}
    ELSE {NoTool, FailTool, Tool("Insert", 0), Tool("Unchanged", line_num),
          Tool("Delete", line_num)}
           \cup {Tool("Move", s) : s \in Lines \ {line_num}}

\* CodeAnalyzerFactory.analyze: AST only for .java files
ToolCombos(java, commit, line_num) ==
    {[ast |-> a, srcml |-> s] :
        a \in (IF java THEN ASTResults(line_num) ELSE {NoTool}),
        s \in SrcmlResults(commit, line_num)}

has_any_result(c) ==
    (c.ast.present /\ c.ast.success) \/ (c.srcml.present /\ c.srcml.success)

get_best_source_line(c) ==
    IF c.ast.present /\ c.ast.success /\ c.ast.source_line # 0
    THEN c.ast.source_line
    ELSE IF c.srcml.present /\ c.srcml.success /\ c.srcml.source_line # 0
         THEN c.srcml.source_line
         ELSE 0

\* ----------------------------------------------- llm_vszz.py: the analysis
\* An analysis: change_type ("missing": no such key), whether the
\* continue_tracking object is there, should_continue, target_line
Analysis(ct, has, cont, tl) ==
    [kind |-> "json", change_type |-> ct, has_ct |-> has,
     should_continue |-> cont, target_line |-> tl]

change_type_map(t) ==
    CASE t = "Insert" -> "INTRODUCED"
      [] t = "Unchanged" -> "UNRELATED"
      [] OTHER -> "MODIFIED"

\* a rule that stops the walk
rule_based_analysisMut(entry) == Analysis("MODIFIED", TRUE, FALSE, entry.line)

\* _rule_based_analysis: MODIFIED, keep tracking, at the entry's own line
rule_based_analysis(entry) == Analysis("MODIFIED", TRUE, TRUE, entry.line)

\* _convert_combined_result_to_analysis (reached only with has_any_result)
convert_combined_result_to_analysis(c) ==
    LET tool_result == IF c.ast.present /\ c.ast.success THEN c.ast ELSE c.srcml
        change_type == change_type_map(tool_result.change_type)
        source_line == get_best_source_line(c)
    IN  Analysis(change_type, TRUE,
                 change_type = "MODIFIED" /\ source_line # 0, source_line)

\* no large LLM, or its call failed: the tools' result, else the rule
no_llm_analysis(c, entry) ==
    IF has_any_result(c) THEN convert_combined_result_to_analysis(c)
    ELSE rule_based_analysis(entry)

\* What the large model can answer
LLMRaise == [kind |-> "raise", change_type |-> "missing", has_ct |-> FALSE,
             should_continue |-> FALSE, target_line |-> 0]
LLMUnparsable == [kind |-> "unparsable", change_type |-> "missing", has_ct |-> FALSE,
                  should_continue |-> FALSE, target_line |-> 0]
ChangeTypes == {"INTRODUCED", "MODIFIED", "UNRELATED", "NEED_MORE_INFO"}
LLMAnswers ==
    {LLMRaise, LLMUnparsable, Analysis("missing", TRUE, FALSE, 0)}
      \cup {Analysis(ct, FALSE, FALSE, 0) : ct \in ChangeTypes}
      \cup {Analysis(ct, TRUE, FALSE, 0) : ct \in ChangeTypes \ {"MODIFIED"}}
      \cup {Analysis("MODIFIED", TRUE, cont, tl) : cont \in BOOLEAN, tl \in 0..NumLines}

\* a recursion without the level bound
needs_more_infoMut(ans, level) ==
    /\ ans.kind = "json"
    /\ ans.change_type = "NEED_MORE_INFO"

\* the recursion of _analyze_commit_with_llm
needs_more_info(ans, level) ==
    /\ ans.kind = "json"
    /\ ans.change_type = "NEED_MORE_INFO"
    /\ level < MAX_CONTEXT_LEVEL

\* _analyze_commit_with_llm once the answer ans is not a request for context
analyze_commit_with_llm(entry, c, ans) ==
    IF ~large_llm THEN no_llm_analysis(c, entry)
    ELSE IF ans.kind # "json" THEN no_llm_analysis(c, entry)
    ELSE IF has_any_result(c) /\ get_best_source_line(c) # 0
            /\ ans.has_ct /\ ans.target_line = 0
         THEN [ans EXCEPT !.target_line = get_best_source_line(c)]
         ELSE ans


\* -------------------------------------------------- llm_vszz.py: the walk
Step(c, l, t) == [commit |-> c, line |-> l, type |-> t]

\* Step 3 of _track_line: what the analysis an of blamed commit bc decides,
\* given current_commit cc and current_line cl
track_decide(an, bc, cc, cl) ==
    CASE an.change_type = "INTRODUCED" ->
            [stop |-> TRUE, end |-> "introduced", commit |-> cc, line |-> cl]
      [] an.change_type = "MODIFIED" ->
            IF an.should_continue
            THEN [stop |-> FALSE, end |-> "none", commit |-> bc,
                  line |-> IF an.target_line # 0 THEN an.target_line ELSE cl]
            ELSE [stop |-> TRUE, end |-> "stop", commit |-> cc, line |-> cl]
      [] an.change_type = "UNRELATED" ->
            [stop |-> FALSE, end |-> "none", commit |-> bc, line |-> cl]
      [] OTHER ->
            [stop |-> FALSE, end |-> "none", commit |-> cc, line |-> cl]

\* a loop counter that does not advance
NextDepthMut(d) == d

\* for depth in range(self.max_tracking_depth): the next value of depth
NextDepth(d) == d + 1

\* a walk that forgets the rejected commit
skip_commitsMut(fb) == {}

\* skip_commits of _track_line
skip_commits(fb) == IF fb # 0 THEN {fb} ELSE {}

\* bic_step of _track_line_with_feedback: index of the last INTRODUCED step
bic_index(ch) ==
    LET I == {i \in 1..Len(ch) : ch[i].type = "INTRODUCED"}
    IN  IF I = {} THEN 0 ELSE CHOOSE i \in I : \A j \in I : j <= i

\* What the small model can answer to _verify_bic
VerifierAnswers == {"ACCEPT", "REJECT", "raise", "unparsable", "noverdict"}

\* _verify_bic: the verification dict; a failed call is accepted by default
verify_bic(v) ==
    IF v \in {"raise", "unparsable"}
    THEN [verdict |-> "ACCEPT", fallback |-> TRUE]
    ELSE [verdict |-> v, fallback |-> FALSE]

NoVerification == [verdict |-> "None", fallback |-> FALSE]

TrackingResult(f, l, bic, ch, ver, vr, it) ==
    [k |-> "result", file |-> f, line |-> l, bic_commit |-> bic,
     tracking_chain |-> ch, verified |-> ver, verification_result |-> vr,
     iterations |-> it]
NoneResult ==
    [k |-> "None", file |-> 0, line |-> 0, bic_commit |-> 0,
     tracking_chain |-> <<>>, verified |-> FALSE,
     verification_result |-> NoVerification, iterations |-> 0]
Pending == [NoneResult EXCEPT !.k = "pending"]

SeedLine == impacted_files[fi].lines[li]
Seed == <<fi, SeedLine>>

walkVars == <<iteration, feedback, chain, current_commit, current_line, depth,
              blame_entry, context_level>>
cfgVars == <<variant, large_llm, small_llm, enable_llm, max_tracking_depth,
             max_iterations, fix_commit, impacted_files>>
ghostVars == <<walkEnd, fault, seeds, walked, failed>>
llmVars == <<llm_verdict>>
fbVars == <<rejected>>
cacheVars == <<cache, tmpFile, wpc, wkey, wmap, wlocal, wres, stored, overlap,
               readFault>>
astVars == <<ast_in, ast_out>>
histVars == <<hist_in, hist_out, ld>>
mapVars == <<map_in, map_out>>
toolVars == <<tool_in, tool_out, text_in, text_out>>
szzVars == <<cfgVars, llmVars, fbVars, walkVars, ghostVars, toolVars, histVars, mapVars, fi, li, entries,
             results, pc, ret, blameTab>>

\* the seeds find_bic is given (vszz) or finds by the first blame (MySZZ)
ExpectedSeeds ==
    IF variant = "vszz"
    THEN UNION {{<<f, impacted_files[f].lines[i]>> :
                    i \in 1..Len(impacted_files[f].lines)} :
                f \in 1..Len(impacted_files)}
    ELSE seeds

\* an exception leaves find_bic
Crash(what) ==
    /\ pc' = "crashed"
    /\ fault' = what
    /\ failed' = failed \cup {Seed}
    /\ UNCHANGED <<walkEnd, seeds, walked>>

\* find_bic (LLMEnhancedVSZZ): the two for loops
V_NextFile ==
    /\ variant = "vszz" /\ pc = "seeds"
    /\ fi <= Len(impacted_files) /\ li > Len(impacted_files[fi].lines)
    /\ fi' = fi + 1 /\ li' = 1
    /\ UNCHANGED <<cfgVars, llmVars, fbVars, cacheVars, toolVars, astVars, histVars, mapVars, entries, results, pc, walkVars, ret, blameTab, ghostVars>>

V_Return ==
    /\ variant = "vszz" /\ pc = "seeds"
    /\ fi > Len(impacted_files)
    /\ pc' = "returned"
    /\ UNCHANGED <<cfgVars, llmVars, fbVars, cacheVars, toolVars, astVars, histVars, mapVars, fi, li, entries, results, walkVars, ret, blameTab, ghostVars>>

\* result = self._track_line_with_feedback(...): feedback = None
V_StartSeed ==
    /\ variant = "vszz" /\ pc = "seeds"
    /\ fi <= Len(impacted_files) /\ li <= Len(impacted_files[fi].lines)
    /\ iteration' = 0 /\ feedback' = 0
    /\ rejected' = {}
    /\ ret' = Pending
    /\ walked' = walked \cup {Seed}
    /\ pc' = "iter"
    /\ UNCHANGED <<cfgVars, llmVars, cacheVars, toolVars, astVars, histVars, mapVars, fi, li, entries, results, chain, current_commit,
                   current_line, depth, blame_entry, context_level, blameTab,
                   walkEnd, fault, seeds, failed>>

\* for iteration in range(self.max_iterations): tracking_chain = _track_line(..)
V_IterStart ==
    /\ variant = "vszz" /\ pc = "iter"
    /\ iteration < max_iterations
    /\ chain' = <<>>
    /\ current_commit' = fix_commit
    /\ current_line' = SeedLine
    /\ depth' = 0
    /\ walkEnd' = "none"
    /\ pc' = "track"
    /\ UNCHANGED <<cfgVars, llmVars, fbVars, cacheVars, toolVars, astVars, histVars, mapVars, fi, li, entries, results, iteration, feedback,
                   blame_entry, context_level, ret, blameTab, fault, seeds,
                   walked, failed>>

\* the loop is over: the last candidate, not verified
V_IterExhausted ==
    /\ variant = "vszz" /\ pc = "iter"
    /\ iteration >= max_iterations
    /\ ret' = TrackingResult(fi, SeedLine,
                 IF bic_index(chain) # 0 THEN chain[bic_index(chain)].commit ELSE 0,
                 chain, FALSE, NoVerification, max_iterations)
    /\ pc' = "ret"
    /\ UNCHANGED <<cfgVars, llmVars, fbVars, cacheVars, toolVars, astVars, histVars, mapVars, fi, li, entries, results, walkVars, blameTab, ghostVars>>

\* for depth in range(self.max_tracking_depth): exhausted
V_DepthExhausted ==
    /\ variant = "vszz" /\ pc = "track"
    /\ depth >= max_tracking_depth
    /\ walkEnd' = "depth"
    /\ pc' = "post"
    /\ UNCHANGED <<cfgVars, llmVars, fbVars, cacheVars, toolVars, astVars, histVars, mapVars, fi, li, entries, results, walkVars, ret, blameTab,
                   fault, seeds, walked, failed>>

\* Step 1 of _track_line: blame current_line at current_commit^
V_Blame ==
    /\ variant = "vszz" /\ pc = "track"
    /\ depth < max_tracking_depth
    /\ \E b \in Blame(fi, ParentRev(current_commit), current_line, FALSE) :
         /\ blameTab' = b[2]
         /\ IF b[1].k # "entry"
            THEN \* except Exception: break
                 /\ walkEnd' = (IF b[1].k = "transient" THEN "transient_fault"
                                ELSE "blame_fault")
                 /\ pc' = "post"
                 /\ UNCHANGED <<walkVars>>
            ELSE IF b[1].commit \in skip_commits(feedback)
            THEN \* skip the rejected commit: continue
                 /\ current_commit' = b[1].commit
                 /\ depth' = NextDepth(depth)
                 /\ UNCHANGED <<pc, walkEnd, iteration, feedback, chain,
                                current_line, blame_entry, context_level>>
            ELSE /\ blame_entry' = b[1]
                 /\ context_level' = 1
                 /\ pc' = "analyze"
                 /\ UNCHANGED <<walkEnd, iteration, feedback, chain,
                                current_commit, current_line, depth>>
    /\ UNCHANGED <<cfgVars, llmVars, fbVars, cacheVars, toolVars, astVars, histVars, mapVars, fi, li, entries, results, ret, fault, seeds, walked, failed>>

\* Steps 2 and 3 of _track_line on the analysis an
TrackStep(an) ==
    IF an.change_type = "missing" THEN
        /\ Crash("KeyError:change_type")
        /\ UNCHANGED <<walkVars>>
    ELSE IF ~an.has_ct THEN
        /\ Crash("KeyError:continue_tracking")
        /\ UNCHANGED <<walkVars>>
    ELSE LET d == track_decide(an, blame_entry.commit, current_commit, current_line) IN
        /\ chain' = Append(chain, Step(blame_entry.commit, current_line, an.change_type))
        /\ depth' = NextDepth(depth)
        /\ current_commit' = d.commit
        /\ current_line' = d.line
        /\ walkEnd' = d.end
        /\ pc' = IF d.stop THEN "post" ELSE "track"
        /\ UNCHANGED <<iteration, feedback, blame_entry, context_level, fault,
                       seeds, walked, failed>>

\* _analyze_commit_with_llm at context_level, then the rest of the iteration
V_Analyze ==
    /\ variant = "vszz" /\ pc = "analyze"
    /\ \E c \in ToolCombos(impacted_files[fi].java, blame_entry.commit, current_line),
          ans \in (IF large_llm THEN LLMAnswers ELSE {LLMRaise}) :
         IF large_llm /\ needs_more_info(ans, context_level)
         THEN /\ context_level' = context_level + 1
              /\ UNCHANGED <<pc, iteration, feedback, chain, current_commit,
                             current_line, depth, blame_entry, ghostVars>>
         ELSE TrackStep(analyze_commit_with_llm(blame_entry, c, ans))
    /\ UNCHANGED <<cfgVars, llmVars, fbVars, cacheVars, toolVars, astVars, histVars, mapVars, fi, li, entries, results, ret, blameTab>>

\* _track_line_with_feedback after _track_line returned
V_Post ==
    /\ variant = "vszz" /\ pc = "post"
    /\ IF chain = <<>> \/ bic_index(chain) = 0
       THEN \* return None
            /\ ret' = NoneResult /\ pc' = "ret"
            /\ UNCHANGED <<walkVars, ghostVars, rejected>>
       ELSE LET bic == chain[bic_index(chain)].commit IN
            IF ~small_llm
            THEN /\ ret' = TrackingResult(fi, SeedLine, bic, chain, FALSE,
                                          NoVerification, iteration + 1)
                 /\ pc' = "ret"
                 /\ UNCHANGED <<walkVars, ghostVars, rejected>>
            ELSE \E v \in VerifierAnswers :
                 LET verification == verify_bic(v) IN
                 IF verification.verdict = "noverdict"
                 THEN /\ Crash("KeyError:verdict")
                      /\ UNCHANGED <<walkVars, ret, rejected>>
                 ELSE IF verification.verdict = "ACCEPT"
                 THEN /\ ret' = TrackingResult(fi, SeedLine, bic, chain, TRUE,
                                               verification, iteration + 1)
                      /\ pc' = "ret"
                      /\ UNCHANGED <<walkVars, ghostVars, rejected>>
                 ELSE /\ feedback' = bic
                      /\ rejected' = rejected \cup {bic}
                      /\ iteration' = iteration + 1
                      /\ pc' = "iter"
                      /\ UNCHANGED <<ret, chain, current_commit, current_line,
                                     depth, blame_entry, context_level, ghostVars>>
    /\ UNCHANGED <<cfgVars, llmVars, cacheVars, toolVars, astVars, histVars, mapVars, fi, li, entries, results, blameTab>>

\* if result: results.append(result)
V_Append ==
    /\ variant = "vszz" /\ pc = "ret"
    /\ results' = IF ret.k = "result" THEN Append(results, ret) ELSE results
    /\ li' = li + 1
    /\ pc' = "seeds"
    /\ UNCHANGED <<cfgVars, llmVars, fbVars, cacheVars, toolVars, astVars, histVars, mapVars, fi, entries, walkVars, ret, blameTab, ghostVars>>

\* ------------------------------------------------- my_szz.py: the mapper
MapRaise == [raise |-> TRUE, line |-> -1, type |-> "none"]
MapResult(l, t) == [raise |-> FALSE, line |-> l, type |-> t]

\* what ASTMapEval reports for the blamed line: no statement for it
\* ("nomatch"), or the statement's stmtChangeType
JavaToolOutputs == {"nomatch", "Insert", "Update", "Move"}

\* a mapper that walks on from an inserted statement
map_modified_line_javaMut(out, line_num) ==
    IF out = "nomatch" THEN MapResult(-1, "New File")
    ELSE MapResult(line_num, out)

\* map_modified_line_java after the tool ran: (mapped_line_num, change_type)
map_modified_line_java(out, line_num) ==
    IF out = "nomatch" THEN MapResult(-1, "New File")
    ELSE IF out = "Insert" THEN MapResult(-1, "Insert")
    ELSE MapResult(line_num, out)

\* what the mapper of find_bic yields for the blamed entry: map_modified_line_java
\* for a .java file, map_modified_line (-1 or a deleted line) otherwise; both
\* can raise (the tool fails, the repository cannot be read)
MapOutcomes(java, entry) ==
    {MapRaise} \cup
    (IF java THEN {map_modified_line_java(o, entry.line) : o \in JavaToolOutputs}
     ELSE {MapResult(l, "none") : l \in {-1} \cup Lines})

\* the dict find_bic appends to bug_introd_commits
SeedResult(f, e, ch) ==
    [k |-> "result", file |-> f, line |-> e.src, bic_commit |-> 0,
     tracking_chain |-> ch, verified |-> FALSE,
     verification_result |-> NoVerification, iterations |-> 0]

MSeed == <<fi, entries[li].src>>

IsM == variant \in {"myszz", "myszzllm"}

\* except: print(traceback.format_exc()) -- the file's loop is left
Swallow(what) ==
    /\ fault' = what
    /\ failed' = failed \cup {MSeed}
    /\ fi' = fi + 1
    /\ pc' = "seeds"
    /\ UNCHANGED <<results, li, entries, seeds, walked>>

\* break, then bug_introd_commits.append(...)
Finish(ch, why) ==
    /\ chain' = ch
    /\ results' = Append(results, SeedResult(fi, entries[li], ch))
    /\ li' = li + 1
    /\ walkEnd' = why
    /\ pc' = "entries"
    /\ UNCHANGED <<fi, entries, blame_entry, fault, seeds, walked, failed>>

\* the walk goes on with the blamed entry b
Continue(ch, b) ==
    /\ chain' = ch
    /\ blame_entry' = b
    /\ pc' = "walk"
    /\ UNCHANGED <<fi, li, entries, results, ghostVars>>

\* blame_data2 = self._blame(rev = commit^, [mapped_line_num]);
\* blame_result = list(blame_data2)[0]
BlameNext(ch, mapped) ==
    \E b \in Blame(fi, ParentRev(blame_entry.commit), mapped, TRUE) :
       /\ blameTab' = b[2]
       /\ IF b[1].k = "entry" THEN Continue(ch, b[1])
          ELSE /\ Swallow(IF b[1].k = "transient" THEN "blame:transient"
                          ELSE IF b[1].k = "empty" THEN "IndexError" ELSE "blame")
               /\ walkEnd' = (IF b[1].k = "transient" THEN "transient_fault"
                              ELSE "blame_fault")
               /\ chain' = ch
               /\ UNCHANGED blame_entry

\* find_bic (MySZZ, MySZZWithLLM): for imp_file in impacted_files: blame_data
M_NextFile ==
    /\ IsM /\ pc = "seeds"
    /\ fi <= Len(impacted_files)
    /\ \/ \E a \in BlameLines(blameTab, fi, ParentRev(fix_commit),
                              impacted_files[fi].lines, TRUE) :
            /\ blameTab' = a[2]
            /\ IF \E i \in 1..Len(a[1]) : a[1][i].k = "fail"
               THEN /\ fault' = "blame" /\ fi' = fi + 1
                    /\ UNCHANGED <<li, entries, pc, seeds>>
               ELSE /\ entries' = SelectSeq(a[1], LAMBDA e : e.k = "entry")
                    /\ seeds' = seeds \cup
                          {<<fi, a[1][i].src>> : i \in {j \in 1..Len(a[1]) : a[1][j].k = "entry"}}
                    /\ li' = 1
                    /\ pc' = "entries"
                    /\ UNCHANGED <<fi, fault>>
       \/ \* a transient fault of the call
          /\ fault' = "blame:transient" /\ fi' = fi + 1
          /\ UNCHANGED <<li, entries, pc, seeds, blameTab>>
    /\ UNCHANGED <<cfgVars, llmVars, fbVars, cacheVars, toolVars, astVars, histVars, mapVars, results, walkVars, ret, walkEnd, walked, failed>>

M_Return ==
    /\ IsM /\ pc = "seeds"
    /\ fi > Len(impacted_files)
    /\ pc' = "returned"
    /\ UNCHANGED <<cfgVars, llmVars, fbVars, cacheVars, toolVars, astVars, histVars, mapVars, fi, li, entries, results, walkVars, ret, blameTab, ghostVars>>

\* for entry in blame_data: previous_commits = []; blame_result = entry
M_NextEntry ==
    /\ IsM /\ pc = "entries"
    /\ li <= Len(entries)
    /\ chain' = <<>>
    /\ blame_entry' = Entry(entries[li].commit, entries[li].line)
    /\ depth' = 0
    /\ walked' = walked \cup {MSeed}
    /\ walkEnd' = "none"
    /\ llm_verdict' = "unset"
    /\ pc' = "walk"
    /\ UNCHANGED <<cfgVars, fbVars, cacheVars, toolVars, astVars, histVars, mapVars, fi, li, entries, results, iteration, feedback,
                   current_commit, current_line, context_level, ret, blameTab,
                   fault, seeds, failed>>

M_FileDone ==
    /\ IsM /\ pc = "entries"
    /\ li > Len(entries)
    /\ fi' = fi + 1
    /\ pc' = "seeds"
    /\ UNCHANGED <<cfgVars, llmVars, fbVars, cacheVars, toolVars, astVars, histVars, mapVars, li, entries, results, walkVars, ret, blameTab, ghostVars>>

\* the body of while True: map the blamed line, record the step, stop at
\* -1 or blame the mapped line at the parent
WalkStep ==
    \E m \in MapOutcomes(impacted_files[fi].java, blame_entry) :
         IF m.raise
         THEN /\ Swallow("mapper")
              /\ UNCHANGED <<chain, blame_entry, blameTab, walkEnd>>
         ELSE LET ch == Append(chain, Step(blame_entry.commit, blame_entry.line, m.type)) IN
              IF m.line = -1
              THEN Finish(ch, "introduced") /\ UNCHANGED blameTab
              ELSE BlameNext(ch, m.line)

\* MySZZ.find_bic: one iteration of while True
M_Walk ==
    /\ variant = "myszz" /\ pc = "walk"
    /\ WalkStep
    /\ UNCHANGED <<cfgVars, llmVars, fbVars, cacheVars, toolVars, astVars, histVars, mapVars, iteration, feedback, current_commit, current_line,
                   depth, context_level, ret>>

\* ------------------------------------------- my_szz_llm.py: the two models
LargeAnswers == {"None", "intro", "notintro"}
ValidationAnswers == {"None", "valid", "invalid"}

\* the validation loop of _llm_verify_with_validation from iteration i on,
\* large_result being the large model's standing answer; la, va: the answers
\* the large model (to the calls with feedback) and the small model will give
RECURSIVE validation_loop(_, _, _, _, _)
validation_loop(i, large_result, la, va, calls) ==
    IF i >= max_iterations THEN [verdict |-> large_result, calls |-> calls]
    ELSE LET c1 == [calls EXCEPT !.small = @ + 1] IN
         IF va[i + 1] = "valid" THEN [verdict |-> large_result, calls |-> c1]
         ELSE IF va[i + 1] = "invalid" /\ i < max_iterations - 1
         THEN LET c2 == [c1 EXCEPT !.large = @ + 1] IN
              IF la[i + 2] = "None" THEN [verdict |-> "None", calls |-> c2]
              ELSE validation_loop(i + 1, la[i + 2], la, va, c2)
         ELSE validation_loop(i + 1, large_result, la, va, c1)

\* _llm_verify_with_validation: the verdict and the calls made
llm_verify_with_validation(la, va) ==
    IF ~large_llm THEN [verdict |-> "None", calls |-> [large |-> 0, small |-> 0]]
    ELSE IF la[1] = "None"
    THEN [verdict |-> "None", calls |-> [large |-> 1, small |-> 0]]
    ELSE IF ~small_llm
    THEN [verdict |-> la[1], calls |-> [large |-> 1, small |-> 0]]
    ELSE validation_loop(0, la[1], la, va, [large |-> 1, small |-> 0])

AnswerSeqs(S) == [1..max_iterations -> S]

\* a missing verdict read as a rejection
not_introductionMut(verdict) == verdict # "intro"

\* if llm_verdict and not llm_verdict.get('is_introduction', True)
not_introduction(verdict) == verdict = "notintro"

\* MySZZWithLLM.find_bic: one iteration of while depth < max_depth
L_Walk ==
    /\ variant = "myszzllm" /\ pc = "walk"
    /\ IF depth >= LLM_MAX_DEPTH
       THEN Finish(chain, "depth") /\ UNCHANGED <<depth, blameTab, llm_verdict>>
       ELSE
       /\ depth' = depth + 1
       /\ \E m \in MapOutcomes(impacted_files[fi].java, blame_entry) :
         IF m.raise
         THEN /\ Swallow("mapper")
              /\ UNCHANGED <<chain, blame_entry, blameTab, walkEnd, llm_verdict>>
         ELSE LET ch == Append(chain, Step(blame_entry.commit, blame_entry.line, m.type)) IN
              IF m.type \in {"Insert", "New File"} /\ enable_llm
              THEN \E la \in AnswerSeqs(LargeAnswers), va \in AnswerSeqs(ValidationAnswers) :
                   /\ llm_verdict' = llm_verify_with_validation(la, va).verdict
                   /\ IF not_introduction(llm_verdict')
                      THEN IF m.type = "New File"
                           THEN \E next_commit \in GitLog(blame_entry.commit) :
                                IF next_commit # 0
                                THEN \E b \in Blame(fi, ParentRev(next_commit), blame_entry.line, TRUE) :
                                     /\ blameTab' = b[2]
                                     /\ IF b[1].k = "entry" THEN Continue(ch, b[1])
                                        ELSE Finish(ch, "boundary")
                                ELSE Finish(ch, "boundary") /\ UNCHANGED blameTab
                           ELSE \* not New File: on to if mapped_line_num == -1
                                Finish(ch, "introduced") /\ UNCHANGED blameTab
                      ELSE Finish(ch, "introduced") /\ UNCHANGED blameTab
              ELSE /\ llm_verdict' = "unset"
                   /\ IF m.line = -1
                      THEN Finish(ch, "introduced") /\ UNCHANGED blameTab
                      ELSE BlameNext(ch, m.line)
    /\ UNCHANGED <<cfgVars, fbVars, cacheVars, toolVars, astVars, histVars, mapVars, iteration, feedback, current_commit, current_line,
                   context_level, ret>>

\* ------------------------------------------------- the AST mapping cache
NumKeys == 2
NumWalkers == 2
Keys == 1..NumKeys
Walkers == 1..NumWalkers

NoMapping == 0

\* ASTMapEval.jar is deterministic: its output is a function of (commit, file)
ToolOutput(k) == k

EmptyCache == [k \in Keys |-> NoMapping]

\* cache[commit_hash][file_path] = results, the other entries kept
cache_put(c, k, v) == [c EXCEPT ![k] = v]

\* ASTAnalyzer._get_from_cache: the entry, None when the file is missing,
\* cannot be read, or has no entry
get_from_cache(c, readable, k) == IF readable THEN c[k] ELSE NoMapping

\* ASTAnalyzer._save_to_cache: the dictionary the entry is added to, {} when
\* the file cannot be read
load_for_save(c, readable) == IF readable THEN c ELSE EmptyCache

\* what a call returns: the parse of mapping_results, the Unknown result of a
\* failed run, or an exception
NoResult == [kind |-> "none", key |-> 0, mapping |-> NoMapping, hit |-> FALSE]
Parsed(k, m, h) == [kind |-> "parsed", key |-> k, mapping |-> m, hit |-> h]
UnknownResult(k) == [kind |-> "Unknown", key |-> k, mapping |-> NoMapping, hit |-> FALSE]
RaiseResult(k) == [kind |-> "raise", key |-> k, mapping |-> NoMapping, hit |-> FALSE]

Returned(p) == [wkey EXCEPT ![p] = 1]

ToolRunOutcomes == {"ok", "fail", "timeout"}

CacheInitState ==
    /\ cache = EmptyCache
    /\ tmpFile = NoMapping
    /\ wpc = [p \in Walkers |-> "idle"]
    /\ wkey = [p \in Walkers |-> 1]
    /\ wmap = [p \in Walkers |-> NoMapping]
    /\ wlocal = [p \in Walkers |-> EmptyCache]
    /\ wres = NoResult
    /\ stored = EmptyCache
    /\ overlap = FALSE
    /\ readFault = FALSE

Busy(p) == \E q \in Walkers \ {p} : wpc[q] # "idle"

\* the first value written for each key
FirstStored(c) == [k \in Keys |-> IF stored[k] = NoMapping THEN c[k] ELSE stored[k]]

\* ASTAnalyzer.analyze: the cache lookup; a hit is parsed and returned
A_Get(p) ==
    /\ wpc[p] = "idle"
    /\ \E k \in Keys, readable \in BOOLEAN :
         LET m == get_from_cache(cache, readable, k) IN
         /\ readFault' = (readFault \/ ~readable)
         /\ IF m = NoMapping
            THEN /\ wpc' = [wpc EXCEPT ![p] = "miss"]
                 /\ wkey' = [wkey EXCEPT ![p] = k]
                 /\ UNCHANGED wres
            ELSE /\ wres' = Parsed(k, m, TRUE)
                 /\ UNCHANGED <<wpc, wkey>>
    /\ overlap' = (overlap \/ Busy(p))
    /\ UNCHANGED <<szzVars, astVars, cache, tmpFile, wmap, wlocal, stored>>

\* ASTAnalyzer.analyze: subprocess.check_output of the jar; a timeout or a
\* failure returns the Unknown result
A_Tool(p) ==
    /\ wpc[p] = "miss"
    /\ \E out \in ToolRunOutcomes :
         IF out = "ok"
         THEN /\ tmpFile' = ToolOutput(wkey[p])
              /\ wpc' = [wpc EXCEPT ![p] = "ran"]
              /\ UNCHANGED <<wres, wkey>>
         ELSE /\ wres' = UnknownResult(wkey[p])
              /\ wpc' = [wpc EXCEPT ![p] = "idle"]
              /\ wkey' = Returned(p)
              /\ UNCHANGED tmpFile
    /\ UNCHANGED <<szzVars, astVars, cache, wmap, wlocal, stored, overlap, readFault>>

\* ASTAnalyzer.analyze: json.load of the output file
A_Load(p) ==
    /\ wpc[p] = "ran"
    /\ wmap' = [wmap EXCEPT ![p] = tmpFile]
    /\ wpc' = [wpc EXCEPT ![p] = "save"]
    /\ UNCHANGED <<szzVars, astVars, cache, tmpFile, wkey, wlocal, wres, stored, overlap,
                   readFault>>

\* ASTAnalyzer._save_to_cache: the read of the cache file
A_SaveRead(p) ==
    /\ wpc[p] = "save"
    /\ \E readable \in BOOLEAN :
         /\ wlocal' = [wlocal EXCEPT ![p] = load_for_save(cache, readable)]
         /\ readFault' = (readFault \/ ~readable)
    /\ wpc' = [wpc EXCEPT ![p] = "write"]
    /\ UNCHANGED <<szzVars, astVars, cache, tmpFile, wkey, wmap, wres, stored, overlap>>

\* ASTAnalyzer._save_to_cache: the write of the whole file, then the parse of
\* mapping_results and the return
A_SaveWrite(p) ==
    /\ wpc[p] = "write"
    /\ LET c == cache_put(wlocal[p], wkey[p], wmap[p]) IN
         /\ cache' = c
         /\ stored' = FirstStored(c)
    /\ wres' = Parsed(wkey[p], wmap[p], FALSE)
    /\ wmap' = [wmap EXCEPT ![p] = NoMapping]
    /\ wlocal' = [wlocal EXCEPT ![p] = EmptyCache]
    /\ wpc' = [wpc EXCEPT ![p] = "idle"]
    /\ wkey' = Returned(p)
    /\ UNCHANGED <<szzVars, astVars, tmpFile, overlap, readFault>>

\* MySZZ.map_modified_line_java: json.load of the cache file (it raises when
\* the file cannot be read) and the lookup
J_Load(p) ==
    /\ wpc[p] = "idle"
    /\ \E k \in Keys, readable \in BOOLEAN :
         /\ readFault' = (readFault \/ ~readable)
         /\ IF ~readable
            THEN /\ wres' = RaiseResult(k)
                 /\ UNCHANGED <<wpc, wkey, wlocal, wmap>>
            ELSE /\ wkey' = [wkey EXCEPT ![p] = k]
                 /\ wlocal' = [wlocal EXCEPT ![p] = cache]
                 /\ wmap' = [wmap EXCEPT ![p] = cache[k]]
                 /\ wpc' = [wpc EXCEPT ![p] =
                                IF cache[k] = NoMapping THEN "jmiss" ELSE "jhit"]
                 /\ UNCHANGED wres
    /\ overlap' = (overlap \/ Busy(p))
    /\ UNCHANGED <<szzVars, astVars, cache, tmpFile, stored>>

\* MySZZ.map_modified_line_java: subprocess.check_output of the jar, whose
\* failure is raised to the caller
J_Tool(p) ==
    /\ wpc[p] = "jmiss"
    /\ \E out \in {"ok", "fail"} :
         IF out = "ok"
         THEN /\ tmpFile' = ToolOutput(wkey[p])
              /\ wpc' = [wpc EXCEPT ![p] = "jran"]
              /\ UNCHANGED <<wres, wlocal, wkey>>
         ELSE /\ wres' = RaiseResult(wkey[p])
              /\ wpc' = [wpc EXCEPT ![p] = "idle"]
              /\ wlocal' = [wlocal EXCEPT ![p] = EmptyCache]
              /\ wkey' = Returned(p)
              /\ UNCHANGED tmpFile
    /\ UNCHANGED <<szzVars, astVars, cache, wmap, stored, overlap, readFault>>

\* MySZZ.map_modified_line_java: json.load of the output file into
\* mapping_db[commit_id][file_path]
J_LoadTmp(p) ==
    /\ wpc[p] = "jran"
    /\ wmap' = [wmap EXCEPT ![p] = tmpFile]
    /\ wlocal' = [wlocal EXCEPT ![p] = cache_put(wlocal[p], wkey[p], tmpFile)]
    /\ wpc' = [wpc EXCEPT ![p] = "jwrite"]
    /\ UNCHANGED <<szzVars, astVars, cache, tmpFile, wkey, wres, stored, overlap, readFault>>

\* MySZZ.map_modified_line_java: json.dump of mapping_db, on a hit too, then
\* the search of mapping_results and the return
J_Write(p) ==
    /\ wpc[p] \in {"jhit", "jwrite"}
    /\ cache' = wlocal[p]
    /\ stored' = FirstStored(wlocal[p])
    /\ wres' = Parsed(wkey[p], wmap[p], wpc[p] = "jhit")
    /\ wmap' = [wmap EXCEPT ![p] = NoMapping]
    /\ wlocal' = [wlocal EXCEPT ![p] = EmptyCache]
    /\ wpc' = [wpc EXCEPT ![p] = "idle"]
    /\ wkey' = Returned(p)
    /\ UNCHANGED <<szzVars, astVars, tmpFile, overlap, readFault>>

\* ------------------------------------------- CodeAnalyzerFactory.analyze
\* what an analyzer that is run answers
ASTRuns(line_num) == ASTResults(line_num) \ {NoTool}
SrcmlRuns(commit, line_num) == SrcmlResults(commit, line_num) \ {NoTool}

\* ASTAnalyzer.is_available
is_available(java_available, jar_available) == java_available /\ jar_available

\* the AST analyzer run on every .java file
CodeAnalyzerFactory_analyzeMut(java, ast_available, srcml_available, a, s) ==
    [ast |-> IF java THEN a ELSE NoTool,
     srcml |-> IF srcml_available THEN s ELSE NoTool]

\* CodeAnalyzerFactory.analyze: the AST analyzer for a .java file when it is
\* available, srcml when it is available
CodeAnalyzerFactory_analyze(java, ast_available, srcml_available, a, s) ==
    [ast |-> IF java /\ ast_available THEN a ELSE NoTool,
     srcml |-> IF srcml_available THEN s ELSE NoTool]

NoCombined == [k |-> "none", c |-> [ast |-> NoTool, srcml |-> NoTool]]

ToolInputs ==
    {[java |-> j, java_available |-> ja, jar_available |-> jr, srcml_available |-> sa,
      commit |-> c, line_num |-> l, a |-> a, s |-> s] :
        j \in BOOLEAN, ja \in BOOLEAN, jr \in BOOLEAN, sa \in BOOLEAN,
        c \in {1, 2}, l \in Lines, a \in ASTRuns(1) \cup ASTRuns(NumLines),
        s \in SrcmlRuns(2, 1) \cup SrcmlRuns(2, NumLines)}

ToolIdle ==
    /\ tool_in = [java |-> FALSE, java_available |-> FALSE, jar_available |-> FALSE,
                  srcml_available |-> FALSE, commit |-> 1, line_num |-> 1,
                  a |-> FailTool, s |-> FailTool]
    /\ tool_out = NoCombined

\* CodeAnalyzerFactory.analyze(commit_hash, file_path, line_num)
F_Analyze ==
    /\ variant = "vszz" /\ pc = "tools"
    /\ tool_out = NoCombined
    /\ tool_out' = [k |-> "combined",
                    c |-> CodeAnalyzerFactory_analyze(
                              tool_in.java,
                              is_available(tool_in.java_available, tool_in.jar_available),
                              tool_in.srcml_available, tool_in.a, tool_in.s)]
    /\ UNCHANGED <<cfgVars, llmVars, fbVars, walkVars, ghostVars, cacheVars, astVars, histVars, mapVars, tool_in,
                   text_in, text_out, fi, li, entries, results, pc, ret, blameTab>>

\* ------------------------------------------------ SrcMLAnalyzer: the lines
MaxLineLen == 2
NumOldLines == 2
NumNewLines == 3

Chars == {" ", "a", "/", "*"}

SeqsUpTo(S, n) == UNION {[1..k -> S] : k \in 0..n}

\* the lines of a file: every text up to MaxLineLen, and the texts with one
\* blank between two other characters
Texts ==
    SeqsUpTo(Chars, MaxLineLen)
      \cup {<<a, " ">> \o <<b>> : a \in Chars \ {" "}, b \in Chars \ {" "}}

RECURSIVE lstrip(_)
lstrip(s) == IF s # <<>> /\ Head(s) = " " THEN lstrip(Tail(s)) ELSE s

RECURSIVE rstrip(_)
rstrip(s) ==
    IF s # <<>> /\ s[Len(s)] = " " THEN rstrip(SubSeq(s, 1, Len(s) - 1)) ELSE s

\* a text with every blank removed
strip_all(s) == SelectSeq(s, LAMBDA ch : ch # " ")

\* str.strip(): the blanks at both ends removed
strip(s) == rstrip(lstrip(s))

startswith(s, p) == Len(s) >= Len(p) /\ SubSeq(s, 1, Len(p)) = p

\* a ToolAnalysisResult of srcml, the confidence in hundredths
SrcmlResult(ok, t, src, conf) ==
    [success |-> ok, change_type |-> t, source_line |-> src, confidence |-> conf]
SrcmlFail == SrcmlResult(FALSE, "Unknown", 0, 0)

\* list[i] of Python: i counts from 0, a negative i from the end of the list
list_index_ok(list, i) == -Len(list) <= i /\ i < Len(list)
list_item(list, i) == IF i >= 0 THEN list[i + 1] ELSE list[Len(list) + i + 1]

\* the IndexError of a list index out of range
IndexError == [success |-> FALSE, change_type |-> "IndexError", source_line |-> 0,
               confidence |-> 0]

\* the line numbers of old_lines whose stripped text is target_content
exact_matches(old_lines, target_content) ==
    {i \in 1..Len(old_lines) : strip(old_lines[i]) = target_content}

Dist(x, y) == IF x >= y THEN x - y ELSE y - x

\* the last of the nearest in ascending order
closestLastMut(matches, target_line) ==
    CHOOSE m \in matches :
        \A n \in matches :
            \/ Dist(m, target_line) < Dist(n, target_line)
            \/ Dist(m, target_line) = Dist(n, target_line) /\ m >= n

\* the candidate farthest from the target line
closestMut(matches, target_line) ==
    CHOOSE m \in matches : \A n \in matches : Dist(m, target_line) >= Dist(n, target_line)

\* min(exact_matches, key=lambda x: abs(x - target_line)): the first of the
\* nearest in ascending order
closest(matches, target_line) ==
    CHOOSE m \in matches :
        \A n \in matches :
            \/ Dist(m, target_line) < Dist(n, target_line)
            \/ Dist(m, target_line) = Dist(n, target_line) /\ m <= n

\* every match a Move
match_typeMut(source_line, target_line) == "Move"

\* "Move" if source_line != target_line else "Unchanged"
match_type(source_line, target_line) ==
    IF source_line # target_line THEN "Move" ELSE "Unchanged"

\* SrcMLAnalyzer._analyze_structure_change on the lines of the two files.
\* The similarity loop of the source stands after the return of the elif
\* branch and never runs: best_match stays None.
analyze_structure_change(old_lines, new_lines, target_line) ==
    IF target_line > Len(new_lines) THEN SrcmlFail
    ELSE IF ~list_index_ok(new_lines, target_line - 1) THEN IndexError
    ELSE LET target_content == strip(list_item(new_lines, target_line - 1))
             matches == exact_matches(old_lines, target_content)
         IN  IF \/ target_content = <<>>
                \/ startswith(target_content, <<"/", "/">>)
                \/ startswith(target_content, <<"/", "*">>)
             THEN SrcmlFail
             ELSE IF Cardinality(matches) = 1
             THEN LET m == CHOOSE m \in matches : TRUE IN
                  SrcmlResult(TRUE, match_type(m, target_line), m, 70)
             ELSE IF Cardinality(matches) > 1
             THEN LET m == closest(matches, target_line) IN
                  SrcmlResult(TRUE, match_type(m, target_line), m, 30)
             ELSE SrcmlResult(TRUE, "Insert", 0, 40)

NoParents == [k |-> "noparents", lines |-> <<>>]
NoFile == [k |-> "absent", lines |-> <<>>]
File(ls) == [k |-> "file", lines |-> ls]

\* the file of the commit read before the file of its parent
srcml_analyzeMut(old, new, xml_ok, target_line) ==
    IF new.k = "absent" THEN SrcmlResult(TRUE, "Delete", target_line, 90)
    ELSE IF old.k # "file" THEN SrcmlResult(TRUE, "Insert", 0, 90)
    ELSE IF xml_ok THEN analyze_structure_change(old.lines, new.lines, target_line)
    ELSE SrcmlFail

\* SrcMLAnalyzer.analyze, srcml available: a commit without parents, the file
\* at the first parent, the file at the commit, the two srcml parses
srcml_analyze(old, new, xml_ok, target_line) ==
    IF old.k = "noparents" THEN SrcmlResult(TRUE, "Insert", 0, 90)
    ELSE IF old.k = "absent" THEN SrcmlResult(TRUE, "Insert", 0, 90)
    ELSE IF new.k = "absent" THEN SrcmlResult(TRUE, "Delete", target_line, 90)
    ELSE IF xml_ok
    THEN LET result == analyze_structure_change(old.lines, new.lines, target_line) IN
         \* except Exception as e: the failure result
         IF result = IndexError THEN SrcmlFail ELSE result
    ELSE SrcmlFail

\* the files at the parent: up to NumOldLines lines of any text, and one line
\* more of two texts
OldFiles ==
    UNION {[1..k -> Texts] : k \in 1..NumOldLines}
      \cup [1..(NumOldLines + 1) -> {<<"a">>, <<"*">>}]

\* the file of the commit: NumNewLines lines, of which only the target's text
\* is read
NewFile(t, target_line) == File([i \in 1..NumNewLines |-> IF i = target_line THEN t ELSE <<"a">>])

OldChoices == {NoParents, NoFile} \cup {File(f) : f \in OldFiles}

\* the file at the commit for a line_num: absent, or with any text at that
\* line; none of its lines when line_num is past its end
NewChoices(l) ==
    {NoFile} \cup
    (IF l > NumNewLines \/ l <= -NumNewLines THEN {NewFile(<<"a">>, 1)}
     ELSE {NewFile(t, IF l >= 1 THEN l ELSE NumNewLines + l) : t \in Texts})

\* the line numbers asked for: those of the file, the one past its end, zero
\* and one before the start of the file counted from its end
TargetNums == {-NumNewLines, 0} \cup (1..(NumNewLines + 1))

NoSrcml == [k |-> "none", available |-> FALSE, xml_ok |-> FALSE, r |-> SrcmlFail]

TextIdle ==
    /\ text_in = [old |-> NoParents, new |-> NoFile, target_line |-> 1]
    /\ text_out = NoSrcml

\* SrcMLAnalyzer.analyze(commit_hash, file_path, line_num, repo): the failure
\* result when srcml is not available, the analysis otherwise
S_Analyze ==
    /\ variant = "vszz" /\ pc = "text"
    /\ text_out = NoSrcml
    /\ \E available \in BOOLEAN, xml_ok \in BOOLEAN :
         /\ ~available => ~xml_ok
         /\ text_out' = [k |-> "result", available |-> available, xml_ok |-> xml_ok,
                         r |-> IF ~available THEN SrcmlFail
                               ELSE srcml_analyze(text_in.old, text_in.new, xml_ok,
                                                  text_in.target_line)]
    /\ UNCHANGED <<cfgVars, llmVars, fbVars, walkVars, ghostVars, cacheVars, astVars, histVars, mapVars, tool_in,
                   tool_out, text_in, fi, li, entries, results, pc, ret, blameTab>>

\* ------------------------------------------- the output of ASTMapEval.jar
NumResults == 2
NumStmts == 2

\* the requested file and another file of the commit
FilePaths == {"f", "g"}

\* stmtChangeType; "none": the statement entry carries no such key
StmtTypes == {"Insert", "Update", "none"}

Stmt(l, t) == [srcStmtStartLine |-> l, stmtChangeType |-> t]
NoStmt == Stmt(0, "nostmt")

Stmts == {Stmt(l, t) : l \in Lines, t \in StmtTypes}
ResultEntries == {[dst |-> f, stmt |-> ss] : f \in FilePaths, ss \in SeqsUpTo(Stmts, NumStmts)}
MappingResults == SeqsUpTo(ResultEntries, NumResults)

\* a search that takes the first statement whatever its line
first_stmtMut(ss, line_num) == IF ss = <<>> THEN NoStmt ELSE Head(ss)

\* for stmt in result['stmt']: the first one that starts at line_num
RECURSIVE first_stmt(_, _)
first_stmt(ss, line_num) ==
    IF ss = <<>> THEN NoStmt
    ELSE IF Head(ss).srcStmtStartLine = line_num THEN Head(ss)
    ELSE first_stmt(Tail(ss), line_num)

\* a search that takes the statements of every file
RECURSIVE find_target_stmtMut(_, _, _)
find_target_stmtMut(mr, file_path, line_num) ==
    IF mr = <<>> THEN NoStmt
    ELSE LET s == first_stmt(Head(mr).stmt, line_num) IN
         IF s # NoStmt THEN s ELSE find_target_stmtMut(Tail(mr), file_path, line_num)

\* for result in mapping_results: the first statement of the first entry of
\* file_path that has one starting at line_num; None without one
RECURSIVE find_target_stmt(_, _, _)
find_target_stmt(mr, file_path, line_num) ==
    IF mr = <<>> THEN NoStmt
    ELSE LET s == IF Head(mr).dst = file_path
                  THEN first_stmt(Head(mr).stmt, line_num) ELSE NoStmt
         IN  IF s # NoStmt THEN s ELSE find_target_stmt(Tail(mr), file_path, line_num)

\* ASTAnalyzer._parse_ast_result
parse_ast_result(mr, file_path, line_num) ==
    LET target_stmt == find_target_stmt(mr, file_path, line_num)
        change_type == IF target_stmt.stmtChangeType = "none" THEN "Unknown"
                       ELSE target_stmt.stmtChangeType
    IN  IF target_stmt = NoStmt THEN SrcmlResult(TRUE, "Insert", 0, 80)
        ELSE IF change_type = "Insert" THEN SrcmlResult(TRUE, "Insert", 0, 90)
        ELSE SrcmlResult(TRUE, change_type, target_stmt.srcStmtStartLine, 85)

\* MySZZ.map_modified_line_java on mapping_results: target_stmt['stmtChangeType']
\* raises KeyError when the entry carries no type
java_parse(mr, file_path, line_num) ==
    LET target_stmt == find_target_stmt(mr, file_path, line_num) IN
    IF target_stmt = NoStmt THEN map_modified_line_java("nomatch", line_num)
    ELSE IF target_stmt.stmtChangeType = "none" THEN MapRaise
    ELSE map_modified_line_java(target_stmt.stmtChangeType,
                                target_stmt.srcStmtStartLine)

NoParse == [k |-> "none", ast |-> SrcmlFail, java |-> MapRaise]

AstIdle ==
    /\ ast_in = [mapping_results |-> <<>>, file_path |-> "f", line_num |-> 1]
    /\ ast_out = NoParse

\* ASTAnalyzer.analyze: return self._parse_ast_result(...)
P_Parse ==
    /\ variant = "vszz" /\ pc = "ast"
    /\ ast_out = NoParse
    /\ ast_out' = [k |-> "ast",
                   ast |-> parse_ast_result(ast_in.mapping_results, ast_in.file_path,
                                            ast_in.line_num),
                   java |-> MapRaise]
    /\ UNCHANGED <<szzVars, cacheVars, ast_in>>

\* MySZZ.map_modified_line_java: the search of mapping_results and the return
J_Parse ==
    /\ variant = "vszz" /\ pc = "ast"
    /\ ast_out = NoParse
    /\ ast_out' = [k |-> "java", ast |-> SrcmlFail,
                   java |-> java_parse(ast_in.mapping_results, ast_in.file_path,
                                       ast_in.line_num)]
    /\ UNCHANGED <<szzVars, cacheVars, ast_in>>

\* ------------------------------------------ run.py and llm_driven_szz.py
\* parser.add_argument('--max-depth', type=int, default=0)
max_depth_default == 0

\* args.max_depth: the value given on the command line, else the default
args_max_depth(given, v) == IF given THEN v ELSE max_depth_default

\* LLMDrivenSZZ._get_file_history: commits[:self.max_history_depth] of the
\* output of git log, [] when it is empty or git raises
get_file_history(log, git_ok, max_history_depth) ==
    IF git_ok /\ log # <<>>
    THEN SubSeq(log, 1, IF max_history_depth < Len(log) THEN max_history_depth ELSE Len(log))
    ELSE <<>>

\* git log --follow fix^ -- file: commits before the fix, the newest first
RECURSIVE Descending(_, _)
Descending(S, c) ==
    IF c = 0 THEN <<>>
    ELSE IF c \in S THEN <<c>> \o Descending(S, c - 1) ELSE Descending(S, c - 1)

FileLogs(fix) == {Descending(S, fix - 1) : S \in SUBSET (1..(fix - 1))}

NoHistory == [k |-> "none", file_history |-> <<>>, error |-> FALSE, git_ok |-> FALSE]

\* before _llm_driven_analysis: introduction_commit = None, tracked_commits = []
NoAnalysis == [k |-> "idle", idx |-> 0, tracked |-> <<>>, introduction_commit |-> 0]

HistIdle ==
    /\ hist_in = [fix |-> 2, log |-> <<>>, given |-> FALSE, max_depth |-> 0,
                  enable_validation |-> TRUE]
    /\ hist_out = NoHistory
    /\ ld = NoAnalysis

\* run.py: LLMDrivenSZZ(repo_path, max_history_depth=args.max_depth), then
\* find_vulnerability_introduction up to the test of file_history
R_FindIntroduction ==
    /\ variant = "vszz" /\ pc = "history"
    /\ hist_out = NoHistory
    /\ \E git_ok \in BOOLEAN :
         LET h == get_file_history(hist_in.log, git_ok,
                                   args_max_depth(hist_in.given, hist_in.max_depth))
         IN  hist_out' = [k |-> "done", file_history |-> h, error |-> (h = <<>>),
                          git_ok |-> git_ok]
    /\ UNCHANGED <<cfgVars, llmVars, fbVars, walkVars, ghostVars, cacheVars, toolVars, astVars, mapVars,
                   hist_in, ld, fi, li, entries, results, pc, ret, blameTab>>

\* an entry of self.tracked_commits
Tracked(h, parsed, ext) ==
    [hash |-> h, parsed |-> parsed, is_boundary |-> FALSE, extended |-> ext]

\* what _parse_json_response makes of the large model's response: None, or
\* the analysis with is_introduction_point and should_continue_tracking
NoAnswer == [parsed |-> FALSE, intro |-> FALSE, cont |-> FALSE]
Answers == {NoAnswer} \cup
           {[parsed |-> TRUE, intro |-> i, cont |-> c] : i, c \in BOOLEAN}

\* _validate_decision: None, is_valid, or not valid with
\* corrected_should_continue True or not
Validations == {"None", "valid", "invalid", "invalid_continue"}

\* llm = get_llm_client(); if not llm: return {'error': 'LLM not available'}
D_Start ==
    /\ variant = "vszz" /\ pc = "history"
    /\ hist_out.k = "done" /\ ~hist_out.error
    /\ ld.k = "idle"
    /\ \E llm \in BOOLEAN :
         ld' = [NoAnalysis EXCEPT !.k = IF llm THEN "loop" ELSE "error"]
    /\ UNCHANGED <<cfgVars, llmVars, fbVars, walkVars, ghostVars, cacheVars, toolVars, astVars, mapVars,
                   hist_in, hist_out, fi, li, entries, results, pc, ret, blameTab>>

\* continue: the next commit of file_history, the return when there is none
LoopContinue(t) ==
    [k |-> IF ld.idx + 1 < Len(hist_out.file_history) THEN "loop" ELSE "returned",
     idx |-> ld.idx + 1, tracked |-> t, introduction_commit |-> 0]

\* break, then the return
LoopBreak(t, c) ==
    [k |-> "returned", idx |-> ld.idx, tracked |-> t, introduction_commit |-> c]

\* _search_code_in_repo and _analyze_extended_history at the last commit:
\* ext is the commit the extended analysis returns, 0 for None; without
\* one the last commit is the boundary
LastCommit(t, commit_hash, ext) ==
    IF ext # 0
    THEN LoopBreak(Append(t, Tracked(ext, TRUE, TRUE)), ext)
    ELSE LoopBreak([t EXCEPT ![Len(t)].is_boundary = TRUE], commit_hash)

\* the commits _search_code_in_repo can yield that were not analysed
NewCommits(t) == Commits \ {t[i].hash : i \in 1..Len(t)}

\* _llm_driven_analysis: one iteration of for idx, commit_hash in
\* enumerate(file_history)
D_Analyze ==
    /\ variant = "vszz" /\ pc = "history"
    /\ ld.k = "loop"
    /\ LET commit_hash == hist_out.file_history[ld.idx + 1]
           is_last_commit == (ld.idx = Len(hist_out.file_history) - 1)
       IN \E analysis \in Answers, validation \in Validations :
          LET t == Append(ld.tracked, Tracked(commit_hash, analysis.parsed, FALSE))
              stop == analysis.intro /\ ~analysis.cont
          IN
          IF ~analysis.parsed THEN ld' = LoopContinue(t)
          ELSE IF hist_in.enable_validation /\ stop /\ validation = "invalid_continue"
          THEN ld' = LoopContinue(t)
          ELSE IF stop THEN ld' = LoopBreak(t, commit_hash)
          ELSE IF ~analysis.cont
          THEN IF is_last_commit
               THEN \E ext \in {0} \cup NewCommits(t) : ld' = LastCommit(t, commit_hash, ext)
               ELSE ld' = LoopBreak(t, 0)
          ELSE IF is_last_commit
          THEN \E ext \in {0} \cup NewCommits(t) : ld' = LastCommit(t, commit_hash, ext)
          ELSE ld' = LoopContinue(t)
    /\ UNCHANGED <<cfgVars, llmVars, fbVars, walkVars, ghostVars, cacheVars, toolVars, astVars, mapVars,
                   hist_in, hist_out, fi, li, entries, results, pc, ret, blameTab>>

\* ------------------------------------------- my_szz.py: map_modified_line
NumDeleted == 3
DeletedNums == 1..NumDeleted

\* remove_whitespace: ''.join(line_str.strip().split())
remove_whitespace(line_str) == strip_all(line_str)

\* the length of the longest common subsequence of two texts
RECURSIVE lcs(_, _)
lcs(a, b) ==
    IF a = <<>> \/ b = <<>> THEN 0
    ELSE IF Head(a) = Head(b) THEN 1 + lcs(Tail(a), Tail(b))
    ELSE LET x == lcs(Tail(a), b)
             y == lcs(a, Tail(b))
         IN  IF x >= y THEN x ELSE y

\* Levenshtein.ratio: (lensum - distance) / lensum with a substitution
\* counted as two edits, 1.0 for two empty texts; kept as a fraction
ratio(l1, l2) ==
    IF Len(l1) + Len(l2) = 0 THEN [num |-> 1, den |-> 1]
    ELSE [num |-> 2 * lcs(l1, l2), den |-> Len(l1) + Len(l2)]

compute_line_ratio(line_str1, line_str2) ==
    ratio(remove_whitespace(line_str1), remove_whitespace(line_str2))

RatioLess(r1, r2) == r1.num * r2.den < r2.num * r1.den
RatioEq(r1, r2) == r1.num * r2.den = r2.num * r1.den

\* sorted_lines_deleted[0][2] > 0.75
above_threshold(r) == 4 * r.num > 3 * r.den

Abs(n) == IF n < 0 THEN -n ELSE n

\* a deleted line of diff_parsed['deleted']: (line number, text)
Deleted(n, t) == [n |-> n, t |-> t]

\* the key of the sort, (ratio, MAXSIZE - distance): k1 sorts below k2
KeyLess(k1, k2) ==
    \/ RatioLess(k1.r, k2.r)
    \/ RatioEq(k1.r, k2.r) /\ k1.d > k2.d

SortKey(line, line_num, line_str) ==
    [r |-> compute_line_ratio(line_str, line.t), d |-> Abs(line_num - line.n)]

\* sorted(..., reverse=True)[0]: the first line, in the order of the diff,
\* among those no other line sorts above
sorted_first(lines_deleted, line_num, line_str) ==
    LET K(i) == SortKey(lines_deleted[i], line_num, line_str)
        Top == {i \in 1..Len(lines_deleted) :
                   \A j \in 1..Len(lines_deleted) : ~KeyLess(K(i), K(j))}
    IN  lines_deleted[CHOOSE i \in Top : \A j \in Top : i <= j]

\* a modified file of the blamed commit; NoPath for a path that is None
NoPath == "none"
Mod(ct, old, new, del) ==
    [change_type |-> ct, old_path |-> old, new_path |-> new, deleted |-> del]

\* for mod in blame_commit.modified_files: ... return -1
RECURSIVE map_modified_files(_, _, _, _)
map_modified_files(mods, blame_file_path, line_num, line_str) ==
    IF mods = <<>> THEN -1
    ELSE LET mod == Head(mods)
             file_path == IF mod.change_type \in {"DELETE", "RENAME"}
                          THEN mod.old_path ELSE mod.new_path
             rest == map_modified_files(Tail(mods), blame_file_path, line_num, line_str)
         IN  IF file_path # blame_file_path THEN rest
             ELSE IF mod.old_path = NoPath THEN -1
             ELSE IF Len(mod.deleted) = 0 THEN -1
             ELSE IF line_str # <<>>
             THEN LET first == sorted_first(mod.deleted, line_num, line_str) IN
                  IF above_threshold(compute_line_ratio(line_str, first.t))
                  THEN first.n ELSE rest
             ELSE rest

\* MySZZ.map_modified_line: -1 when the blamed commit is not found
map_modified_line(found, mods, blame_file_path, line_num, line_str) ==
    IF ~found THEN -1
    ELSE map_modified_files(mods, blame_file_path, line_num, line_str)

\* the blamed lines and the deleted lines of the runs
abc == <<"a", "b", "c">>
BlamedStrs == {<<>>, <<" ">>, abc, <<"a", " ", "b", "c">>, <<"a", "b", "c", "d">>}
DeletedStrs == {abc, <<"a", "b">>, <<"a", "b", "c", "e">>, <<" ">>}

\* the deleted lines of a diff, in the order of their numbers
RECURSIVE DeletedFrom(_, _)
DeletedFrom(f, n) ==
    IF n > NumDeleted THEN <<>>
    ELSE IF f[n] = <<"-">> THEN DeletedFrom(f, n + 1)
    ELSE <<Deleted(n, f[n])>> \o DeletedFrom(f, n + 1)

DeletedChoices ==
    {DeletedFrom(f, 1) : f \in [DeletedNums -> DeletedStrs \cup {<<"-">>}]}

\* how the blamed commit can bear on the blamed file "f"
ModChoices(del) ==
    {Mod("MODIFY", "f", "f", del), Mod("MODIFY", "g", "g", del),
     Mod("ADD", NoPath, "f", <<>>), Mod("DELETE", "f", NoPath, del),
     Mod("RENAME", "g", "f", del), Mod("RENAME", "f", "g", del)}

OtherMod == Mod("MODIFY", "g", "g", <<Deleted(1, abc)>>)

NoMap == [k |-> "none", line |-> 0]

MapIdle ==
    /\ map_in = [found |-> FALSE, mods |-> <<>>, file_path |-> "f",
                 line_num |-> 1, line_str |-> <<>>]
    /\ map_out = NoMap

\* MySZZ.map_modified_line on the blamed entry
K_Map ==
    /\ variant = "vszz" /\ pc = "map"
    /\ map_out = NoMap
    /\ map_out' = [k |-> "done",
                   line |-> map_modified_line(map_in.found, map_in.mods, map_in.file_path,
                                              map_in.line_num, map_in.line_str)]
    /\ UNCHANGED <<cfgVars, llmVars, fbVars, walkVars, ghostVars, cacheVars, toolVars, astVars,
                   histVars, map_in, fi, li, entries, results, pc, ret, blameTab>>

\* ------------------------------------------------------------------ runs
Variants == {"vszz", "myszz", "myszzllm"}

EmptyTab == [f \in Files |-> [r \in Revs |-> [l \in Lines |-> Unset]]]

\* the configurations: the clients only where the variant reads them
InitConfig ==
    /\ variant \in Variants
    /\ large_llm \in (IF variant = "myszz" THEN {FALSE} ELSE BOOLEAN)
    /\ small_llm \in (IF variant = "myszz" THEN {FALSE} ELSE BOOLEAN)
    /\ enable_llm \in (IF variant = "myszzllm" THEN BOOLEAN ELSE {FALSE})
    /\ variant = "myszzllm" /\ ~enable_llm => ~large_llm /\ ~small_llm

InitState ==
    /\ fi = 1 /\ li = 1
    /\ entries = <<>>
    /\ results = <<>>
    /\ pc = "seeds"
    /\ iteration = 0 /\ feedback = 0
    /\ chain = <<>>
    /\ current_commit = 0 /\ current_line = 0 /\ depth = 0
    /\ blame_entry = NoEntry
    /\ context_level = 1
    /\ ret = Pending
    /\ blameTab = EmptyTab
    /\ walkEnd = "none" /\ fault = "none"
    /\ seeds = {} /\ walked = {} /\ failed = {}
    /\ llm_verdict = "unset"
    /\ rejected = {}
    /\ CacheInitState

\* one seed, the walk at full depth
Init ==
    /\ InitConfig
    /\ InitState
    /\ ToolIdle
    /\ TextIdle
    /\ AstIdle
    /\ HistIdle
    /\ MapIdle
    /\ fix_commit = NumCommits
    /\ max_tracking_depth = MaxDepth
    /\ max_iterations = MaxIterations
    /\ impacted_files \in {<<[java |-> j, lines |-> <<1>>]>> : j \in BOOLEAN}

Next ==
    \/ V_NextFile \/ V_Return \/ V_StartSeed \/ V_IterStart \/ V_IterExhausted
    \/ V_DepthExhausted \/ V_Blame \/ V_Analyze \/ V_Post \/ V_Append
    \/ M_NextFile \/ M_Return \/ M_NextEntry \/ M_FileDone \/ M_Walk \/ L_Walk

Spec == Init /\ [][Next]_vars

\* max_iterations: int = 3
max_iterations_default == 3

\* LLMEnhancedVSZZ with the default number of iterations on one seed of a
\* fix that has two earlier commits
RetryInit ==
    /\ variant = "vszz"
    /\ large_llm \in BOOLEAN /\ small_llm \in BOOLEAN /\ enable_llm = FALSE
    /\ InitState
    /\ ToolIdle
    /\ TextIdle
    /\ AstIdle
    /\ HistIdle
    /\ MapIdle
    /\ fix_commit = 3
    /\ max_tracking_depth = 2
    /\ max_iterations = max_iterations_default
    /\ impacted_files \in {<<[java |-> j, lines |-> <<1>>]>> : j \in BOOLEAN}

RetryNext ==
    \/ V_NextFile \/ V_Return \/ V_StartSeed \/ V_IterStart \/ V_IterExhausted
    \/ V_DepthExhausted \/ V_Blame \/ V_Analyze \/ V_Post \/ V_Append

RetrySpec == RetryInit /\ [][RetryNext]_vars

\* a batch: the fix is the second commit of the history, with two impacted
\* files and three seeds, every walk one iteration deep
BatchInit ==
    /\ InitConfig
    /\ InitState
    /\ ToolIdle
    /\ TextIdle
    /\ AstIdle
    /\ HistIdle
    /\ MapIdle
    /\ fix_commit = 2
    /\ max_tracking_depth = 1
    /\ max_iterations = 1
    /\ impacted_files \in
          {<<[java |-> j, lines |-> <<1, 2>>], [java |-> j, lines |-> <<1>>]>> :
              j \in BOOLEAN}

BatchSpec == BatchInit /\ [][Next]_vars

\* the cache alone: walkers calling the two mappers on the keys of one project
CacheInit ==
    /\ variant = "myszz"
    /\ large_llm = FALSE /\ small_llm = FALSE /\ enable_llm = FALSE
    /\ InitState
    /\ ToolIdle
    /\ TextIdle
    /\ AstIdle
    /\ HistIdle
    /\ MapIdle
    /\ fix_commit = NumCommits
    /\ max_tracking_depth = MaxDepth
    /\ max_iterations = MaxIterations
    /\ impacted_files = <<>>

CacheNext ==
    \E p \in Walkers :
        \/ A_Get(p) \/ A_Tool(p) \/ A_Load(p) \/ A_SaveRead(p) \/ A_SaveWrite(p)
        \/ J_Load(p) \/ J_Tool(p) \/ J_LoadTmp(p) \/ J_Write(p)

CacheSpec == CacheInit /\ [][CacheNext]_vars

\* the factory alone, called once on every file, tool set and tool answer
StandBy(p) ==
    /\ variant = "vszz"
    /\ large_llm = FALSE /\ small_llm = FALSE /\ enable_llm = FALSE
    /\ fi = 1 /\ li = 1
    /\ entries = <<>>
    /\ results = <<>>
    /\ pc = p
    /\ iteration = 0 /\ feedback = 0
    /\ chain = <<>>
    /\ current_commit = 0 /\ current_line = 0 /\ depth = 0
    /\ blame_entry = NoEntry
    /\ context_level = 1
    /\ ret = Pending
    /\ blameTab = EmptyTab
    /\ walkEnd = "none" /\ fault = "none"
    /\ seeds = {} /\ walked = {} /\ failed = {}
    /\ llm_verdict = "unset"
    /\ rejected = {}
    /\ CacheInitState
    /\ fix_commit = NumCommits
    /\ max_tracking_depth = MaxDepth
    /\ max_iterations = MaxIterations
    /\ impacted_files = <<>>

ToolInit ==
    /\ StandBy("tools")
    /\ TextIdle
    /\ AstIdle
    /\ HistIdle
    /\ MapIdle
    /\ tool_in \in {i \in ToolInputs :
                       /\ i.a \in ASTRuns(i.line_num)
                       /\ i.s \in SrcmlRuns(i.commit, i.line_num)}
    /\ tool_out = NoCombined

ToolNext == F_Analyze

ToolSpec == ToolInit /\ [][ToolNext]_vars

\* the textual mapper alone, called once on every pair of files and line
TextInit ==
    /\ StandBy("text")
    /\ ToolIdle
    /\ AstIdle
    /\ HistIdle
    /\ MapIdle
    /\ \E o \in OldChoices, l \in TargetNums :
         \E n \in NewChoices(l) :
             text_in = [old |-> o, new |-> n, target_line |-> l]
    /\ text_out = NoSrcml

TextNext == S_Analyze

TextSpec == TextInit /\ [][TextNext]_vars

\* the two parsers of the tool's output alone, each called once on every
\* output and line
AstInit ==
    /\ StandBy("ast")
    /\ ToolIdle
    /\ TextIdle
    /\ HistIdle
    /\ MapIdle
    /\ \E mr \in MappingResults, l \in Lines :
         ast_in = [mapping_results |-> mr, file_path |-> "f", line_num |-> l]
    /\ ast_out = NoParse

AstNext == P_Parse \/ J_Parse

AstSpec == AstInit /\ [][AstNext]_vars

\* map_modified_line on one blamed entry of file "f": every set of deleted
\* lines, every way the blamed commit bears on the file
MapInit ==
    /\ StandBy("map")
    /\ ToolIdle
    /\ TextIdle
    /\ AstIdle
    /\ HistIdle
    /\ \E found \in BOOLEAN, l \in DeletedNums, t \in BlamedStrs :
         \E del \in DeletedChoices :
           \E m \in ModChoices(del) :
             \E mods \in {<<>>, <<m>>, <<OtherMod, m>>} :
               /\ ~found => mods = <<>>
               /\ map_in = [found |-> found, mods |-> mods, file_path |-> "f",
                            line_num |-> l, line_str |-> t]
    /\ map_out = NoMap

MapNext == K_Map

MapSpec == MapInit /\ [][MapNext]_vars

\* run.py on one fix and file: every git log of the file, --max-depth given
\* or not
HistInit ==
    /\ StandBy("history")
    /\ MapIdle
    /\ ToolIdle
    /\ TextIdle
    /\ AstIdle
    /\ \E fix \in Commits \ {1}, given, v \in BOOLEAN, d \in 0..MaxDepth :
         \E log \in FileLogs(fix) :
             /\ ~given => d = 0
             /\ hist_in = [fix |-> fix, log |-> log, given |-> given, max_depth |-> d,
                           enable_validation |-> v]
    /\ hist_out = NoHistory
    /\ ld = NoAnalysis

HistNext == R_FindIntroduction \/ D_Start \/ D_Analyze

HistSpec == HistInit /\ [][HistNext]_vars

\* ------------------------------------------------------------ termination
InWalk == pc \in {"track", "analyze", "walk"}

\* the variant of each walk loop: what is left of the depth budget (and of
\* the context levels) for the two bounded loops, the age of the blamed
\* commit for the while True loop of MySZZ
WalkRank ==
    CASE variant = "vszz" ->
           (max_tracking_depth - depth) * (MAX_CONTEXT_LEVEL + 1)
             + (IF pc = "analyze" THEN MAX_CONTEXT_LEVEL - context_level
                ELSE MAX_CONTEXT_LEVEL)
      [] variant = "myszz" -> blame_entry.commit
      [] OTHER -> LLM_MAX_DEPTH - depth

\* C1: every per-seed walk stops after finitely many iterations: each step
\* that stays inside a walk loop (_track_line, the while loops of MySZZ and
\* MySZZWithLLM) strictly decreases a natural-number rank, so no walk loops
\* forever.
C1_WalksTerminate ==
    [][(InWalk /\ InWalk') => (WalkRank' < WalkRank /\ WalkRank' >= 0)]_vars

\* a MySZZ walk that went three commits back and stopped at an Insert
C1_Witness ==
    /\ variant = "myszz" /\ pc = "entries"
    /\ Len(chain) = NumCommits - 1
    /\ walkEnd = "introduced"

\* ------------------------------------------------------------ the chains
InsertTypes == {"INTRODUCED", "Insert", "New File"}

IsRoot(c) == ParentRev(c) = 0

\* C2: in every chain of _track_line the commit of step i+1 is a strict
\* ancestor of the commit of step i, whatever the analysis answered.
C2_ChainMonotone ==
    variant = "vszz" =>
        \A i \in 1..(Len(chain) - 1) : chain[i + 1].commit < chain[i].commit

OracleOverride(step) ==
    /\ variant = "myszzllm" /\ enable_llm /\ large_llm
    /\ step.type = "New File"

C4_RootIsInsert ==
    variant = "vszz" =>
        \A i \in 1..Len(chain) :
            IsRoot(chain[i].commit) => chain[i].type = "INTRODUCED"

\* C5: the value returned for a seed is a result that holds every step of
\* the walk; a chain that is not empty is never dropped.
C5_ChainReturned ==
    (variant = "vszz" /\ pc = "ret" /\ chain # <<>>)
        => (ret.k = "result" /\ ret.tracking_chain = chain)

\* C6: when find_bic is over and the walk of some seed raised, every other
\* seed was walked and has its chain in the returned list.
C6_BatchSurvives ==
    (pc \in {"returned", "crashed"} /\ failed # {}) =>
        \A s \in ExpectedSeeds \ failed :
            /\ s \in walked
            /\ \E i \in 1..Len(results) : <<results[i].file, results[i].line>> = s

\* C7: a walk does not end on a transient blame fault: the call is repeated
\* and the walk goes on.
C7_TransientRetried ==
    walkEnd = "transient_fault" => InWalk

\* ----------------------------------------------------------- the fallbacks
\* no tool result is successful, or the successful ones say Unknown
Unclassified(c) ==
    /\ ~(c.ast.present /\ c.ast.success) \/ c.ast.change_type = "Unknown"
    /\ ~(c.srcml.present /\ c.srcml.success) \/ c.srcml.change_type = "Unknown"

\* the analysis of blame_entry without a large model keeps the walk going
\* at line
KeepsWalkingAt(c, line) ==
    LET an == analyze_commit_with_llm(blame_entry, c, LLMRaise)
        d == track_decide(an, blame_entry.commit, current_commit, current_line)
    IN  /\ an.change_type = "MODIFIED" /\ an.has_ct /\ an.should_continue
        /\ ~d.stop /\ d.commit = blame_entry.commit /\ d.line = line

C9_MalformedFallsBack ==
    ~(pc = "crashed" /\ fault \in {"KeyError:change_type", "KeyError:continue_tracking"})

\* C10: when the verification call fails, the result returned is the one
\* of a run without a small model: not verified, no verification_result.
C10_VerifierFallsBack ==
    (variant = "vszz" /\ pc = "ret" /\ ret.k = "result") =>
        ~ret.verification_result.fallback

\* ------------------------------------------------- MySZZWithLLM and MySZZ
\* the oracle gave no verdict for the step: it was not asked (enable_llm
\* false, no Insert / New File) or the call yielded None (no client, the
\* call raised, the response was not parsable)
NoVerdict(v) == v \in {"unset", "None"}

\* C11: without a verdict of the oracle, every iteration of the loop of
\* MySZZWithLLM.find_bic is an iteration of the loop of MySZZ.find_bic on
\* the same answers of the mapper and of blame: same step appended, same
\* blame, same stop, same list returned.
C11_NoVerdictIsMySZZ ==
    [][(variant = "myszzllm" /\ pc = "walk" /\ depth < LLM_MAX_DEPTH
          /\ NoVerdict(llm_verdict'))
       => WalkStep]_vars

\* a walk of MySZZWithLLM with the oracle enabled that ended at a New File
\* step for which the large model gave no verdict
C11_Witness ==
    /\ variant = "myszzllm" /\ enable_llm /\ large_llm
    /\ pc = "entries" /\ llm_verdict = "None"
    /\ Len(chain) >= 2
    /\ chain[Len(chain)].type = "New File"
    /\ Len(results) = 1 /\ results[1].tracking_chain = chain

\* ------------------------------------------------------------ the results
\* what a consumer can read of the depth limit in a value returned by
\* _track_line_with_feedback: TrackingResult has no field for the reason of
\* the stop, only the chain, as long as the budget and not ended by INTRODUCED
DepthLimited(r) ==
    /\ r.k = "result"
    /\ Len(r.tracking_chain) = max_tracking_depth
    /\ r.tracking_chain[Len(r.tracking_chain)].type # "INTRODUCED"

\* C12: the value returned for a seed tells a walk that ran out of depth
\* from one that stopped at a history boundary or at an Insert: it is
\* reported depth-limited exactly when the depth budget ended the walk.
C12_DepthLimitReported ==
    (variant = "vszz" /\ pc = "ret") => (DepthLimited(ret) <=> walkEnd = "depth")

\* what the large model can be taken to answer at pc = "analyze"
AnswersNow == IF large_llm THEN LLMAnswers ELSE {LLMRaise}

\* C13: a step that is not INTRODUCED and for which neither the tools nor
\* the large model give a parent line (target_line null) ends the walk; the
\* walk never goes on with an unchanged line number.
C13_NoParentLineStops ==
    (variant = "vszz" /\ pc = "analyze") =>
        \A c \in ToolCombos(impacted_files[fi].java, blame_entry.commit, current_line),
           ans \in AnswersNow :
            LET an == analyze_commit_with_llm(blame_entry, c, ans)
                d == track_decide(an, blame_entry.commit, current_commit, current_line)
            IN  (/\ ~(large_llm /\ needs_more_info(ans, context_level))
                 /\ an.change_type \notin {"INTRODUCED", "missing"}
                 /\ an.has_ct
                 /\ an.target_line = 0)
                => d.stop

\* ----------------------------------------------------- the re-query loops
\* C14: every re-query loop stays within its budget, whatever the models
\* answer: _llm_verify_with_validation makes at most max_iterations calls of
\* the large model and at most max_iterations validation calls,
\* _track_line_with_feedback walks a seed at most max_iterations times, and
\* the NEED_MORE_INFO recursion asks the large model at most 3 times per
\* analysed commit.
C14_RequeryBounded ==
    /\ (variant = "myszzllm" /\ pc = "walk") =>
          \A la \in AnswerSeqs(LargeAnswers), va \in AnswerSeqs(ValidationAnswers) :
              LET r == llm_verify_with_validation(la, va) IN
              r.calls.large <= max_iterations /\ r.calls.small <= max_iterations
    /\ (variant = "vszz" /\ pc \in {"track", "analyze", "post"}) =>
          iteration + 1 <= max_iterations
    /\ (variant = "vszz" /\ pc = "analyze") =>
          context_level <= MAX_CONTEXT_LEVEL

\* the last allowed walk of a seed, after a rejection, in which the large
\* model is asked for the third time about one commit
C14_Witness ==
    /\ variant = "vszz" /\ pc = "analyze"
    /\ feedback # 0
    /\ iteration + 1 = max_iterations
    /\ context_level = MAX_CONTEXT_LEVEL

\* ------------------------------------------------------------- the cache
\* C15: whatever the cache file holds from earlier successful analyses, the
\* mapping_results a call parses and returns for (commit, file) are the tool's
\* output for (commit, file), on a cache hit as on a miss
C15_CacheTransparent ==
    (wres.kind = "parsed") => wres.mapping = ToolOutput(wres.key)

\* the same when no two calls were ever in progress at once
C15_CacheTransparentSequential ==
    (~overlap /\ wres.kind = "parsed") => wres.mapping = ToolOutput(wres.key)

\* a hit returned for the second key after both keys were stored
C15_Witness ==
    /\ ~overlap
    /\ wres.kind = "parsed" /\ wres.hit /\ wres.key = NumKeys
    /\ \A k \in Keys : stored[k] = ToolOutput(k)
    /\ \A p \in Walkers : wpc[p] = "idle"

\* C16: once the stores of two walkers for two different keys have both
\* completed (every read of the cache file having succeeded), the cache file
\* holds both entries
C16_WritesSerialized ==
    (/\ ~readFault
     /\ \A p \in Walkers : wpc[p] = "idle"
     /\ \A k \in Keys : stored[k] # NoMapping)
    => \A k \in Keys : cache[k] # NoMapping

\* C17: in sequential execution, once a value has been stored for a key, a
\* get of that key between any two later calls returns exactly that value
C17_EntryPersists ==
    (~overlap /\ \A p \in Walkers : wpc[p] = "idle") =>
        \A k \in Keys :
            stored[k] # NoMapping => get_from_cache(cache, TRUE, k) = stored[k]

\* a walker's step runs the structural-diff tool to success
ToolRun(p) ==
    /\ wpc[p] \in {"miss", "jmiss"}
    /\ wpc'[p] \in {"ran", "jran"}

\* C18: in sequential execution, the tool is not run for a key once an
\* analysis of that key has run it successfully and stored its output
C18_ToolRunsOnce ==
    [][~overlap' => \A p \in Walkers : ToolRun(p) => stored[wkey[p]] = NoMapping]_vars

\* the same when every read of the cache file succeeds
C18_ToolRunsOnceReadable ==
    [][(~overlap' /\ ~readFault') =>
          \A p \in Walkers : ToolRun(p) => stored[wkey[p]] = NoMapping]_vars

\* ---------------------------------------------------------- tool failures
\* C19: a failure of the structural tool at a step of a .java walk of
\* MySZZ.find_bic does not abort the walk of the seed
C19_ToolFailureRecoverable ==
    (variant = "myszz" /\ fault = "mapper") =>
        \A s \in failed : ~impacted_files[s[1]].java

\* C20: for a .java file with the AST tool unavailable (no Java runtime or no
\* jar), CodeAnalyzerFactory.analyze returns a result without an AST part,
\* carrying the answer of srcml when srcml is available, and the analysis
\* converted from it takes its classification from that answer
C20_ToolAbsenceNotFatal ==
    (/\ tool_out.k = "combined"
     /\ tool_in.java
     /\ ~is_available(tool_in.java_available, tool_in.jar_available))
    => LET c == tool_out.c IN
       /\ ~c.ast.present
       /\ tool_in.srcml_available =>
            /\ c.srcml = tool_in.s
            /\ tool_in.s.success =>
                 /\ has_any_result(c)
                 /\ convert_combined_result_to_analysis(c).change_type
                        = change_type_map(tool_in.s.change_type)
                 /\ get_best_source_line(c) = tool_in.s.source_line

\* a .java file, the jar there but no Java runtime, srcml answering Move
\* while the AST tool would have answered Insert
C20_Witness ==
    /\ tool_out.k = "combined"
    /\ tool_in.java /\ ~tool_in.java_available /\ tool_in.jar_available
    /\ tool_in.srcml_available
    /\ tool_in.a = Tool("Insert", 0)
    /\ tool_in.s = Tool("Move", NumLines)
    /\ convert_combined_result_to_analysis(tool_out.c).change_type = "MODIFIED"
    /\ convert_combined_result_to_analysis(tool_out.c).target_line = NumLines

\* ------------------------------------------------------ the textual mapper
\* the call reached the comparison of the target line with the parent's lines
Compared ==
    /\ text_out.k = "result" /\ text_out.xml_ok
    /\ text_in.old.k = "file" /\ text_in.new.k = "file"
    /\ text_in.target_line \in 1..NumNewLines

TargetLine == text_in.new.lines[text_in.target_line]
OldLine(i) == text_in.old.lines[i]
OldNums == 1..Len(text_in.old.lines)

CharSet(s) == {s[i] : i \in 1..Len(s)}
Common(s, t) == Cardinality(CharSet(s) \cap CharSet(t))
Total(s, t) == Cardinality(CharSet(s) \cup CharSet(t))

\* |characters in common| / |union of the characters| > 0.6
Similar(s, t) == Total(s, t) > 0 /\ 10 * Common(s, t) > 6 * Total(s, t)

\* the ratio of line i is the best of the parent's lines
BestRatio(i) ==
    \A j \in OldNums :
        Common(strip(OldLine(j)), strip(TargetLine)) * Total(strip(OldLine(i)), strip(TargetLine))
            <= Common(strip(OldLine(i)), strip(TargetLine)) * Total(strip(OldLine(j)), strip(TargetLine))

\* a target the mapper takes as code: not empty, not opening a comment
Meaningful(t) ==
    /\ strip(t) # <<>>
    /\ ~startswith(strip(t), <<"/", "/">>)
    /\ ~startswith(strip(t), <<"/", "*">>)

\* C21: with no exact match of a meaningful target line, a parent line whose
\* character-set ratio is the best and above 0.6 gives Update at that line
\* with confidence ratio x 0.5; without such a line the result is Insert,
\* no parent line, confidence 0.4
C21_SimilarityFallback ==
    (/\ Compared
     /\ Meaningful(TargetLine)
     /\ \A i \in OldNums : strip_all(OldLine(i)) # strip_all(TargetLine))
    => IF \E i \in OldNums : Similar(strip(OldLine(i)), strip(TargetLine))
       THEN /\ text_out.r.success
            /\ text_out.r.change_type = "Update"
            /\ text_out.r.source_line \in OldNums
            /\ BestRatio(text_out.r.source_line)
            /\ text_out.r.confidence
                   * Total(strip(OldLine(text_out.r.source_line)), strip(TargetLine))
                 = 50 * Common(strip(OldLine(text_out.r.source_line)), strip(TargetLine))
       ELSE text_out.r = SrcmlResult(TRUE, "Insert", 0, 40)

\* C22: a parent line that equals the target line once every blank of both
\* is removed is an exact match: the result is a Move or Unchanged at a
\* parent line
C22_WhitespaceNormalized ==
    (/\ Compared
     /\ Meaningful(TargetLine)
     /\ \E i \in OldNums : strip_all(OldLine(i)) = strip_all(TargetLine))
    => /\ text_out.r.success
       /\ text_out.r.change_type \in {"Move", "Unchanged"}
       /\ text_out.r.source_line \in OldNums
       /\ strip_all(OldLine(text_out.r.source_line)) = strip_all(TargetLine)

\* the same for blanks at the ends of the lines only
C22_EndsNormalized ==
    (/\ Compared
     /\ Meaningful(TargetLine)
     /\ \E i \in OldNums : strip(OldLine(i)) = strip(TargetLine))
    => /\ text_out.r.success
       /\ text_out.r.change_type \in {"Move", "Unchanged"}
       /\ text_out.r.source_line \in OldNums
       /\ strip(OldLine(text_out.r.source_line)) = strip(TargetLine)

\* the parent lines that match the target line as the mapper compares them
Matches == exact_matches(text_in.old.lines, strip(TargetLine))

C25_FilePresence ==
    (text_out.k = "result" /\ text_out.available) =>
        /\ text_in.old.k = "absent" => text_out.r = SrcmlResult(TRUE, "Insert", 0, 90)
        /\ (text_in.old.k = "file" /\ text_in.new.k = "absent") =>
              (text_out.r.success /\ text_out.r.change_type = "Delete")

\* absent at the parent and at the commit: Insert all the same
C25_Witness ==
    /\ text_out.k = "result" /\ text_out.available
    /\ text_in.old.k = "absent" /\ text_in.new.k = "absent"
    /\ text_out.r = SrcmlResult(TRUE, "Insert", 0, 90)

\* a target line that holds no code: empty, a // comment, the opening of a
\* block comment, or the closing of one
CommentOnly(t) ==
    \/ strip(t) = <<>>
    \/ startswith(strip(t), <<"/", "/">>)
    \/ startswith(strip(t), <<"/", "*">>)
    \/ strip(t) = <<"*", "/">>

\* C26: an empty or comment-only target line gives Unknown with no parent
\* line, whatever the parent file holds
C26_MeaninglessIsUnknown ==
    (Compared /\ CommentOnly(TargetLine))
    => text_out.r.change_type = "Unknown" /\ text_out.r.source_line = 0

\* the same for the target lines that are empty or begin with // or /*
C26_PrefixIsUnknown ==
    (Compared /\ ~Meaningful(TargetLine))
    => text_out.r.change_type = "Unknown" /\ text_out.r.source_line = 0

\* ---------------------------------------------------- the structural mapper
\* the places <<i, j>> of the statement entries of the requested file that
\* start at the requested line
EntryPlaces ==
    {<<i, j>> \in (1..NumResults) \X (1..NumStmts) :
        /\ i <= Len(ast_in.mapping_results)
        /\ j <= Len(ast_in.mapping_results[i].stmt)
        /\ ast_in.mapping_results[i].dst = ast_in.file_path
        /\ ast_in.mapping_results[i].stmt[j].srcStmtStartLine = ast_in.line_num}

Before(p, q) == p[1] < q[1] \/ (p[1] = q[1] /\ p[2] <= q[2])

\* the first of them in the order of the tool's output
FirstEntry ==
    LET p == CHOOSE p \in EntryPlaces : \A q \in EntryPlaces : Before(p, q)
    IN  ast_in.mapping_results[p[1]].stmt[p[2]]

TypeOf(e) == IF e.stmtChangeType = "none" THEN "Unknown" ELSE e.stmtChangeType

\* C27: without a statement entry of the requested file starting at the
\* requested line, _parse_ast_result returns Insert with confidence 0.8 and
\* map_modified_line_java returns line -1 with type 'New File'
C27_SilentIsInsert ==
    (EntryPlaces = {}) =>
        /\ ast_out.k = "ast" => ast_out.ast = SrcmlResult(TRUE, "Insert", 0, 80)
        /\ ast_out.k = "java" => ast_out.java = MapResult(-1, "New File")

\* the tool reports the requested line for another file only
C27_Witness ==
    /\ ast_out.k = "java"
    /\ EntryPlaces = {}
    /\ \E i \in 1..Len(ast_in.mapping_results) :
         /\ ast_in.mapping_results[i].dst # ast_in.file_path
         /\ \E j \in 1..Len(ast_in.mapping_results[i].stmt) :
              ast_in.mapping_results[i].stmt[j] = Stmt(ast_in.line_num, "Update")
    /\ ast_out.java = MapResult(-1, "New File")

\* C28: with such an entry, both parsers return the change type of the first
\* one in the order of the tool's output, Unknown when it carries none
C28_FirstEntrySelected ==
    (EntryPlaces # {}) =>
        /\ ast_out.k = "ast" =>
             ast_out.ast.success /\ ast_out.ast.change_type = TypeOf(FirstEntry)
        /\ ast_out.k = "java" =>
             ~ast_out.java.raise /\ ast_out.java.type = TypeOf(FirstEntry)

\* the same for _parse_ast_result, and for map_modified_line_java on
\* entries that carry a change type
C28_FirstTypedEntrySelected ==
    (EntryPlaces # {}) =>
        /\ ast_out.k = "ast" =>
             ast_out.ast.success /\ ast_out.ast.change_type = TypeOf(FirstEntry)
        /\ (ast_out.k = "java" /\ FirstEntry.stmtChangeType # "none") =>
             ~ast_out.java.raise /\ ast_out.java.type = TypeOf(FirstEntry)

\* ------------------------------------------------------------ --max-depth
\* C29: run with max depth 0 (the default, documented as no limit), the
\* tracer takes every commit of the file's git log and does not fail when
\* the log has commits
C29_ZeroDepthIsUnlimited ==
    (/\ hist_out.k = "done" /\ hist_out.git_ok
     /\ args_max_depth(hist_in.given, hist_in.max_depth) = 0)
    => /\ hist_out.file_history = hist_in.log
       /\ hist_in.log # <<>> => ~hist_out.error

\* ------------------------------------------------ the rejected Insert step
\* C30: in MySZZWithLLM.find_bic, a step the AST tool classified as Insert
\* that the oracle judges not to be the introduction does not end the chain:
\* the walk goes on to a further blame (no result is appended at that step)
C30_RejectedInsertWalksOn ==
    [][(/\ variant = "myszzllm" /\ pc = "walk"
        /\ Len(chain') = Len(chain) + 1
        /\ chain'[Len(chain')].type = "Insert"
        /\ not_introduction(llm_verdict'))
       => /\ results' = results
          /\ ~(pc' = "entries" /\ walkEnd' = "introduced")]_vars

\* ------------------------------------------------- the file-history boundary
\* the loop of _llm_driven_analysis went through the last commit of the
\* file history and returned, no introduction point was confirmed there and
\* the repository-wide search gave no earlier commit
ReachedEnd ==
    /\ ld.k = "returned"
    /\ Len(ld.tracked) = Len(hist_out.file_history)
    /\ ld.introduction_commit \notin
          Commits \ {hist_out.file_history[Len(hist_out.file_history)]}

\* C31: when the loop reaches the last commit of the file history without
\* a confirmed introduction point and the repository-wide search yields
\* nothing, the last history commit is returned as introduction_commit and
\* its tracked entry is marked is_boundary, or the large model answered there
\* that the commit is the introduction point
C31_LastCommitIsBoundary ==
    ReachedEnd =>
        /\ ld.introduction_commit = hist_out.file_history[Len(hist_out.file_history)]
        /\ \/ ld.tracked[Len(ld.tracked)].is_boundary
           \/ ld.tracked[Len(ld.tracked)].parsed

\* C31 for the answers stop-without-introduction and continue: the last
\* commit is returned as boundary whenever the response at the last commit
\* parsed and the validator did not send the loop on
C31_ParsedLastCommitIsBoundary ==
    (ReachedEnd /\ ld.idx = Len(hist_out.file_history) - 1)
        => ld.introduction_commit = hist_out.file_history[Len(hist_out.file_history)]

\* ------------------------------------------------ the rejected candidate
\* the walk of an iteration that follows a rejection
AfterRejection ==
    variant = "vszz" /\ pc \in {"track", "analyze", "post"} /\ feedback # 0

\* C32: after the verifier rejected candidate R, the chain built by the
\* next iteration contains no step whose commit is R, and the step that
\* meets R skips it: the walk goes on at R with the same line, so that the
\* next blame is of that line at R's first parent
C32_RejectedIsSkipped ==
    [][/\ AfterRejection' =>
             \A i \in 1..Len(chain') : chain'[i].commit # feedback'
       /\ (AfterRejection /\ pc = "track" /\ pc' = "track" /\ depth' # depth)
             => /\ current_commit' = feedback
                /\ current_line' = current_line
                /\ chain' = chain]_vars

\* a rejected commit was met and skipped, and the walk found a candidate
\* below it
C32_Witness ==
    /\ AfterRejection /\ pc = "post"
    /\ chain # <<>>
    /\ chain[Len(chain)].type = "INTRODUCED"
    /\ chain[Len(chain)].commit < feedback

\* ---------------------------------------------- the rejected candidates
\* _track_line returned a chain with a candidate BIC
Proposed == variant = "vszz" /\ pc = "post" /\ bic_index(chain) # 0

\* C33: no commit rejected in an earlier iteration is proposed again as
\* candidate in a later iteration of the same call, and the result returned
\* after max_iterations rejections is not verified
C33_NoReproposal ==
    /\ Proposed => chain[bic_index(chain)].commit \notin rejected
    /\ (variant = "vszz" /\ pc = "ret" /\ iteration = max_iterations)
          => ret.k = "result" /\ ~ret.verified

\* C33 for the commit rejected last: the candidate of an iteration is never
\* the commit the iteration before it had rejected, and the result after
\* max_iterations rejections is not verified
C33_LastRejectedNotProposed ==
    /\ Proposed => chain[bic_index(chain)].commit # feedback
    /\ (variant = "vszz" /\ pc = "ret" /\ iteration = max_iterations)
          => ret.k = "result" /\ ~ret.verified

\* ------------------------------------------------ the structural mapper
\* C34: the line map_modified_line_java hands on is -1 or the line of the
\* blamed entry it was given, and a successful _parse_ast_result has
\* source_line None or the requested line: no line is remapped
C34_NeverRemaps ==
    /\ (ast_out.k = "java" /\ ~ast_out.java.raise)
          => ast_out.java.line \in {-1, ast_in.line_num}
    /\ (ast_out.k = "ast" /\ ast_out.ast.success)
          => ast_out.ast.source_line \in {0, ast_in.line_num}

\* an updated statement at the second line, after a statement of the file
\* at another line: the mapper hands the second line on
C34_Witness ==
    /\ ast_out.k = "java"
    /\ ast_in.line_num = NumLines
    /\ ast_in.mapping_results =
          <<[dst |-> ast_in.file_path, stmt |-> <<Stmt(1, "Update"), Stmt(NumLines, "Update")>>]>>
    /\ ast_out.java = MapResult(NumLines, "Update")

\* ------------------------------------------------- the textual line mapper
\* the modified files of the blamed commit that are the blamed file, under
\* its old or its new path
Touching ==
    {i \in 1..Len(map_in.mods) :
        \/ map_in.mods[i].old_path = map_in.file_path
        \/ map_in.mods[i].new_path = map_in.file_path}

\* the lines the blamed commit deleted in the blamed file
DeletedInFile ==
    IF Touching = {} THEN <<>> ELSE map_in.mods[CHOOSE i \in Touching : TRUE].deleted

NewlyAdded == \E i \in Touching : map_in.mods[i].change_type = "ADD"

LineKey(i) == SortKey(DeletedInFile[i], map_in.line_num, map_in.line_str)

\* the deleted lines of the highest ratio and, among them, of the smallest
\* distance to the blamed line number
BestLines ==
    {i \in 1..Len(DeletedInFile) :
        \A j \in 1..Len(DeletedInFile) : ~KeyLess(LineKey(i), LineKey(j))}

\* the cases in which the mapper is to return -1
NothingToMap ==
    \/ Touching = {}
    \/ NewlyAdded
    \/ Len(DeletedInFile) = 0
    \/ map_in.line_str = <<>>
    \/ \A i \in BestLines : ~above_threshold(LineKey(i).r)

MapsToBest ==
    IF NothingToMap THEN map_out.line = -1
    ELSE \E i \in BestLines : map_out.line = DeletedInFile[i].n

\* C35: map_modified_line returns, among the lines the blamed commit deleted
\* in the blamed file, the number of one with the highest ratio to the
\* blamed line and then the smallest distance to its number, if that ratio is
\* above 0.75; it returns -1 when it is not, when no line was deleted, when
\* the file is newly added, when the blamed line is empty and when the commit
\* does not touch the file
C35_MapsToMostSimilar ==
    (map_out.k = "done" /\ map_in.found) => MapsToBest

\* C35 for the commits that do not rename another file to the blamed path
C35_MapsToMostSimilarUnlessRenamed ==
    (/\ map_out.k = "done" /\ map_in.found
     /\ \A i \in Touching :
           map_in.mods[i].change_type = "RENAME"
              => map_in.mods[i].old_path = map_in.file_path)
    => MapsToBest

\* ----------------------------------------------------------- the tie-break
\* C36: with several exact matches of which two are at the same distance
\* from the target line number, one above and one below, and none nearer,
\* the mapper returns the one with the smaller line number
C36_TieGoesToSmaller ==
    (/\ Compared /\ Meaningful(TargetLine)
     /\ \E d \in 1..NumNewLines :
          /\ {text_in.target_line - d, text_in.target_line + d} \subseteq Matches
          /\ \A n \in Matches : Dist(n, text_in.target_line) >= d)
    => /\ text_out.r.success
       /\ text_out.r.source_line \in Matches
       /\ text_out.r.source_line < text_in.target_line
       /\ \A n \in Matches :
            Dist(text_out.r.source_line, text_in.target_line) <= Dist(n, text_in.target_line)

\* the target is the second line, the lines above and below it in the parent
\* match and the parent's second does not
C36_Witness ==
    /\ Compared /\ Meaningful(TargetLine)
    /\ text_in.target_line = 2
    /\ Matches = {1, 3}
    /\ text_out.r = SrcmlResult(TRUE, "Move", 1, 30)

\* ------------------------------------------------------- the target's range
\* C38: for a target line number outside 1..(number of lines of the file at
\* the commit) the mapper reads no line and returns an unsuccessful Unknown
\* result
C38_OutOfRangeIsUnknown ==
    (/\ text_out.k = "result" /\ text_out.xml_ok
     /\ text_in.old.k = "file" /\ text_in.new.k = "file"
     /\ text_in.target_line \notin 1..Len(text_in.new.lines))
    => text_out.r = SrcmlFail

\* C38 for the line numbers past the end of the file
C38_PastEndIsUnknown ==
    (/\ text_out.k = "result" /\ text_out.xml_ok
     /\ text_in.old.k = "file" /\ text_in.new.k = "file"
     /\ text_in.target_line > Len(text_in.new.lines))
    => text_out.r = SrcmlFail

\* ------------------------------------------------------ the stored entries
\* C37: the value the cache file holds under (commit, file) is the tool's
\* output for that (commit, file), also when analyses of different keys
\* overlap and both pass through tmp.json
C37_StoredIsOwnOutput ==
    \A k \in Keys : cache[k] # NoMapping => cache[k] = ToolOutput(k)

\* the same when no two analyses were ever in progress at once
C37_StoredIsOwnOutputSequential ==
    ~overlap => \A k \in Keys : cache[k] # NoMapping => cache[k] = ToolOutput(k)
====
